---------------------------- MODULE Spec2Model ----------------------------
(***************************************************************************)
(* A model of the quantum/classical algorithm library: the factorization   *)
(* routines (ShorAlgorithm.run, shor_factor, classical_factorization), the *)
(* period finders, the unstructured search (GroverAlgorithm.run,           *)
(* classical_search), the Deutsch-Jozsa routines, the extremum searches,   *)
(* the phase estimation, and the harness that runs them on datasets        *)
(* (AlgorithmRunner.run_all_algorithms, main).  It also holds the marking  *)
(* oracles called on their own, the timing harness measure, the generator  *)
(* of the factorization dataset, the summary of the metrics harness, and   *)
(* the numpy routines of SL/classical: grover_search, deutsch_jozsa,       *)
(* phase_estimation and minimax.                                           *)
(*                                                                         *)
(* One entry point is called per behaviour.  fn names it, args holds its   *)
(* arguments, loc its local variables, pc its position and ret what it     *)
(* returned or raised.  Python's None is the empty tuple and an optional   *)
(* integer v is the one-element tuple <<v>>; a result dictionary is a      *)
(* record whose fields are the dictionary's keys.                          *)
(***************************************************************************)
EXTENDS Integers, Sequences, FiniteSets, TLC

VARIABLES fn, pc, args, loc, ret

vars == <<fn, pc, args, loc, ret>>

-----------------------------------------------------------------------------
(* Bounds of the model *)

\* shor_factor and ShorAlgorithm.run are called with N in 1..MaxShorN
MaxShorN == 23
\* a caller-supplied base of ShorAlgorithm.run, and the base of the period
\* finders, is drawn from 0..MaxBase
MaxBase == 30
\* the period finders are called with N in 1..MaxPeriodN
MaxPeriodN == 16
\* classical_factorization is called with N in -2..MaxFactorN
MaxFactorN == 95

\* the search space of GroverAlgorithm.run and classical_search has a size
\* in 0..MaxSpace
MaxSpace == 4
\* marked_items is a list of at most MaxMarkedLen indices in 0..MaxMarked,
\* so that it may be empty, hold an index twice, or hold an index outside
\* the search space
MaxMarkedLen == 2
MaxMarked == 8
\* a measurement histogram holds at most MaxOutcomes distinct bitstrings
MaxOutcomes == 2

\* DeutschJozsaAlgorithm.run is called with n_qubits in 1..MaxDJQubits, and
\* with the two register sizes next to the qubit ceiling
MaxDJQubits == 6

\* classical_deutsch_jozsa is called with n_qubits in 0..MaxClassicalQubits
MaxClassicalQubits == 3
\* the data of the extremum searches is a list of at most MaxDataLen values
\* in 0..MaxDataValue
MaxDataLen == 3
MaxDataValue == 2

\* QuantumPhaseEstimation.run is called with 1..MaxCounting counting qubits
\* (and with one more than the qubit ceiling), and with a phase num / 2^s
\* for s in 0..MaxPhaseBits and num from -1 to 2^s
MaxCounting == 3
MaxPhaseBits == 3

\* the datasets of AlgorithmRunner hold at most MaxScenarios scenarios, all
\* algorithms together
MaxScenarios == 4

\* the seed given to main, and the seed a generator takes from the system
\* when the program does not seed it, is in 0..MaxSeed
MaxSeed == 2

\* _oracle and _min_max_oracle are called on registers of 1..MaxOracleQubits
\* qubits, with lists of 1..MaxOracleMarked indices of the register's states
MaxOracleQubits == 2
MaxOracleMarked == 2

\* measure is called with repeat in 0..MaxRepeat; a call of func takes
\* 0..MaxWallTime ticks of the clock and returns a result in 1..MaxFuncResult
MaxRepeat == 3
MaxWallTime == 2
MaxFuncResult == 2

\* generate_shor_data is called with count in 0..MaxShorCount
MaxShorCount == 2

\* the mean wall time measure reports for a run is 0 or MaxMeanTime, in
\* units of 1e-9 s
MaxMeanTime == 2

\* grover_search is called with n in 1..MaxSearchQubits, and deutsch_jozsa
\* with n in 1..MaxFunctionQubits and every function into {0, 1}
MaxSearchQubits == 4
MaxFunctionQubits == 2

\* phase_estimation is called with t in 2..MaxPrecisionBits, and as
\* test_phase_estimation calls it
MaxPrecisionBits == 4

\* minimax is called on every tree of at most MaxLeaves leaves with values
\* in 0..MaxLeafValue
MaxLeaves == 3
MaxLeafValue == 2

(* Constants of the program *)

\* "if N > 21" of ShorAlgorithm.run
SimulationLimitN == 21
\* "if n_qubits > 10" of GroverAlgorithm.run
MaxQubits == 10
\* "shots=1000" of GroverAlgorithm.run
Shots == 1000
\* "success_rate = success_count / 1000" of GroverAlgorithm.run
RateDivisor == 1000

-----------------------------------------------------------------------------
(* Python values *)

None == <<>>
Some(v) == <<v>>

\* What a call returned or raised.  A returned integer, a returned string, a
\* returned float (a fraction), a returned list, tuple or optional value, and
\* a returned dictionary are kept in fields of their own, so that a field
\* holds values of one kind.
NoResult == [kind |-> "none"]
ReturnInt(n) == [kind |-> "return", number |-> n]
ReturnStr(s) == [kind |-> "return", text |-> s]
ReturnFloat(x) == [kind |-> "return", fraction |-> x]
Return(v) == [kind |-> "return", value |-> v]
ReturnDict(d) == [kind |-> "return", dict |-> d]
Raise(e) == [kind |-> "raise", exc |-> e]

-----------------------------------------------------------------------------
(* Integer arithmetic *)

\* gcd of SL/classical/factorization.py: Euclid's loop
RECURSIVE gcd(_, _)
gcd(a, b) == IF b = 0 THEN a ELSE gcd(b, a % b)

\* math.gcd, as ShorAlgorithm calls it on non-negative integers
math_gcd(a, b) == gcd(a, b)

\* pow(a, r, N), for r >= 0 and N >= 1
RECURSIVE pow(_, _, _)
pow(a, r, N) == IF r = 0 THEN 1 % N ELSE ((a % N) * pow(a, r - 1, N)) % N

-----------------------------------------------------------------------------
(* Period finding *)

\* find_period: r = 1; while pow(a, r, N) != 1: r += 1.  The loop ends only
\* when a has an order modulo N; shor_factor calls it after its gcd test.
RECURSIVE find_period_loop(_, _, _)
find_period_loop(a, N, r) ==
    IF pow(a, r, N) # 1 THEN find_period_loop(a, N, r + 1) ELSE r

\* find_period with the counter started at 0 instead of 1
find_period_from_zero(a, N) == find_period_loop(a, N, 0)

find_period(a, N) == find_period_loop(a, N, 1)

\* the while loop of ShorAlgorithm._classical_period_finding, entered with
\* current = a % N and r = 1; the safety check follows the increment
RECURSIVE classical_period_loop(_, _, _, _)
classical_period_loop(a, N, current, r) ==
    IF current # 1
    THEN IF r + 1 > N
         THEN None
         ELSE classical_period_loop(a, N, (current * a) % N, r + 1)
    ELSE Some(r)

classical_period_finding(a, N) ==
    IF math_gcd(a, N) # 1 THEN None ELSE classical_period_loop(a, N, a % N, 1)

\* ShorAlgorithm._quantum_period_finding delegates to the classical finder
quantum_period_finding(a, N) == classical_period_finding(a, N)

-----------------------------------------------------------------------------
(* DatasetGenerator.generate_shor_data *)

\* primes = [3, 5, 7, 11, 13, 17, 19, 23, 29, 31]
primes == <<3, 5, 7, 11, 13, 17, 19, 23, 29, 31>>

\* random.sample(primes[:7], 2): two different elements of the first seven
samples ==
    {s \in {<<primes[i], primes[j]>> : i \in 1..7, j \in 1..7} : s[1] # s[2]}

\* for _ in range(count): ..., from the k-th draw on
RECURSIVE composites_from(_, _, _)
composites_from(draws, k, composites) ==
    IF k > Len(draws) THEN composites
    ELSE LET N == draws[k][1] * draws[k][2]
         IN  composites_from(draws, k + 1,
                 IF /\ \A i \in 1..Len(composites) : composites[i] # N
                    /\ N < 100
                    /\ N > 10
                 THEN Append(composites, N)
                 ELSE composites)

\* sorted(list(set(...)))
RECURSIVE sorted(_)
sorted(S) ==
    IF S = {} THEN <<>>
    ELSE LET m == CHOOSE m \in S : \A x \in S : m <= x
         IN  <<m>> \o sorted(S \ {m})

\* generate_shor_data(count) for the pairs that random.sample draws
generate_shor_data(count, draws) ==
    LET c == composites_from(draws, 1, <<>>)
        composites == sorted({c[i] : i \in 1..Len(c)})
    IN  SubSeq(composites, 1,
               IF Len(composites) < count THEN Len(composites) ELSE count)

\* the lists generate_shor_data(count) can return
shor_data(count) ==
    {generate_shor_data(count, draws) : draws \in [1..count -> samples]}

\* the numbers of these lists
shor_values ==
    UNION {{l[i] : i \in 1..Len(l)} : l \in shor_data(MaxShorCount)}

GenerateShorDataCall ==
    /\ pc = "idle"
    /\ \E count \in 0..MaxShorCount : \E data \in shor_data(count) :
        /\ args' = [count |-> count]
        /\ ret' = Return(data)
    /\ fn' = "DatasetGenerator.generate_shor_data"
    /\ loc' = [none |-> 0]
    /\ pc' = "done"

-----------------------------------------------------------------------------
(* ShorAlgorithm.run *)

\* _find_coprime with the search started at range(1, N)
find_coprime_from_one(N) == IF N > 1 THEN 1 ELSE 2

\* _find_coprime: the first a of range(2, N) coprime to N, else 2
find_coprime(N) ==
    IF \E a \in 2..(N - 1) : math_gcd(a, N) = 1
    THEN CHOOSE a \in 2..(N - 1) :
            /\ math_gcd(a, N) = 1
            /\ \A b \in 2..(a - 1) : math_gcd(b, N) # 1
    ELSE 2

\* math.gcd(a ** e + d, N) for d in {-1, 1}.  Python computes a ** e exactly;
\* gcd(m, N) = gcd(m mod N, N), so the power is reduced modulo N here.
gcd_of_power(a, e, d, N) == math_gcd((pow(a, e, N) + N + d) % N, N)

\* the post-processing with the "factor2 != N" test left out
post_processing_unchecked(N, a, r) ==
    LET factor1 == gcd_of_power(a, r \div 2, -1, N)
        factor2 == gcd_of_power(a, r \div 2, 1, N)
    IN  IF factor1 # 1 /\ factor1 # N
        THEN [factors |-> <<factor1, N \div factor1>>, period |-> Some(r),
              base |-> a, method |-> "quantum"]
        ELSE IF factor2 # 1
        THEN [factors |-> <<factor2, N \div factor2>>, period |-> Some(r),
              base |-> a, method |-> "quantum"]
        ELSE [factors |-> None, period |-> Some(r),
              error |-> "Factorization failed"]

\* the classical post-processing of run, for an even period r
post_processing(N, a, r) ==
    LET factor1 == gcd_of_power(a, r \div 2, -1, N)
        factor2 == gcd_of_power(a, r \div 2, 1, N)
    IN  IF factor1 # 1 /\ factor1 # N
        THEN [factors |-> <<factor1, N \div factor1>>, period |-> Some(r),
              base |-> a, method |-> "quantum"]
        ELSE IF factor2 # 1 /\ factor2 # N
        THEN [factors |-> <<factor2, N \div factor2>>, period |-> Some(r),
              base |-> a, method |-> "quantum"]
        ELSE [factors |-> None, period |-> Some(r),
              error |-> "Factorization failed"]

\* run(N) leaves the base out: args has no field a then
\* run(N) and run(N, a) for the small N, and run(N) as the harness calls it
\* on the numbers of a generated dataset
ShorInputs ==
    [N : 1..MaxShorN] \cup [N : 1..MaxShorN, a : 0..MaxBase]
    \cup [N : shor_values]

\* run(N, a): the call, up to the gcd test of the base
ShorRunCall ==
    /\ pc = "idle"
    /\ \E in \in ShorInputs :
        /\ fn' = "ShorAlgorithm.run"
        /\ args' = in
        /\ IF in.N % 2 = 0
           THEN /\ ret' = ReturnDict([factors |-> <<2, in.N \div 2>>,
                                  method |-> "trivial"])
                /\ loc' = [period_calls |-> 0]
                /\ pc' = "done"
           ELSE IF in.N > SimulationLimitN
           THEN /\ ret' = ReturnDict([factors |-> None,
                                  error |-> "N too large for simulation"])
                /\ loc' = [period_calls |-> 0]
                /\ pc' = "done"
           ELSE LET a == IF "a" \in DOMAIN in THEN in.a ELSE find_coprime(in.N)
                    g == math_gcd(a, in.N)
                IN  IF g # 1
                    THEN /\ ret' = ReturnDict([factors |-> <<g, in.N \div g>>,
                                           method |-> "gcd"])
                         /\ loc' = [a |-> a, period_calls |-> 0]
                         /\ pc' = "done"
                    ELSE /\ ret' = NoResult
                         /\ loc' = [a |-> a, period_calls |-> 0]
                         /\ pc' = "period_finding"

\* run(N, a): period finding and the classical post-processing
ShorRunPeriod ==
    /\ fn = "ShorAlgorithm.run"
    /\ pc = "period_finding"
    /\ LET r == quantum_period_finding(loc.a, args.N)
       IN  /\ loc' = [loc EXCEPT !.period_calls = @ + 1]
           /\ ret' = IF r = None \/ r[1] % 2 # 0
                     THEN ReturnDict([factors |-> None, period |-> r,
                                  error |-> "Period not suitable"])
                     ELSE ReturnDict(post_processing(args.N, loc.a, r[1]))
    /\ pc' = "done"
    /\ UNCHANGED <<fn, args>>

-----------------------------------------------------------------------------
(* shor_factor *)

\* shor_factor(N): the call and the parity test
ShorFactorCall ==
    /\ pc = "idle"
    /\ \E N \in 1..MaxShorN :
        /\ fn' = "shor_factor"
        /\ args' = [N |-> N]
        /\ loc' = [none |-> 0]
        /\ IF N % 2 = 0
           THEN ret' = ReturnInt(2) /\ pc' = "done"
           ELSE ret' = NoResult /\ pc' = "draw"

\* the head of the while True loop: a = random.randint(2, N - 1), which
\* raises ValueError on an empty range, and the gcd test of the drawn base
ShorFactorDraw ==
    /\ fn = "shor_factor"
    /\ pc = "draw"
    /\ IF args.N - 1 < 2
       THEN /\ ret' = Raise("ValueError")
            /\ pc' = "done"
            /\ loc' = loc
       ELSE \E a \in 2..(args.N - 1) :
               LET g == gcd(a, args.N)
               IN  /\ loc' = IF "r" \in DOMAIN loc
                             THEN [a |-> a, r |-> loc.r]
                             ELSE [a |-> a]
                   /\ IF g > 1
                      THEN ret' = ReturnInt(g) /\ pc' = "done"
                      ELSE ret' = NoResult /\ pc' = "period"
    /\ UNCHANGED <<fn, args>>

\* what one pass of the loop body does after the gcd test: the pair (p, q)
\* it returns, or None when it goes back to the head of the loop
shor_factor_body(a, N) ==
    LET r == find_period(a, N)
        x == pow(a, r \div 2, N)
        p == gcd(x - 1, N)
        q == gcd(x + 1, N)
    IN  IF r % 2 # 0 THEN None
        ELSE IF x = N - 1 THEN None
        ELSE IF p > 1 /\ q > 1 THEN <<p, q>>
        ELSE None

\* the rest of the loop body: the period, then return (p, q) or continue
ShorFactorPeriod ==
    /\ fn = "shor_factor"
    /\ pc = "period"
    /\ LET out == shor_factor_body(loc.a, args.N)
       IN  /\ loc' = [a |-> loc.a, r |-> find_period(loc.a, args.N)]
           /\ IF out = None
              THEN ret' = NoResult /\ pc' = "draw"
              ELSE ret' = Return(out) /\ pc' = "done"
    /\ UNCHANGED <<fn, args>>

-----------------------------------------------------------------------------
(* The period finders, called on their own *)

PeriodInputs == [a : 0..MaxBase, N : 1..MaxPeriodN]

ClassicalPeriodFindingCall ==
    /\ pc = "idle"
    /\ \E in \in PeriodInputs :
        /\ fn' = "_classical_period_finding"
        /\ args' = in
        /\ ret' = Return(classical_period_finding(in.a, in.N))
    /\ loc' = [none |-> 0]
    /\ pc' = "done"

\* find_period returns only for a base that has an order modulo N, that is
\* a base with gcd(a, N) = 1 and N >= 2 (for N = 1, pow(a, r, 1) is 0)
FindPeriodCall ==
    /\ pc = "idle"
    /\ \E in \in PeriodInputs :
        /\ in.N >= 2
        /\ gcd(in.a, in.N) = 1
        /\ fn' = "find_period"
        /\ args' = in
        /\ ret' = ReturnInt(find_period(in.a, in.N))
    /\ loc' = [none |-> 0]
    /\ pc' = "done"

-----------------------------------------------------------------------------
(* classical_factorization *)

\* while N % 2 == 0: factors.append(2); N //= 2
RECURSIVE divide_out(_, _, _)
divide_out(factors, N, i) ==
    IF N % i = 0
    THEN divide_out(Append(factors, i), N \div i, i)
    ELSE [factors |-> factors, N |-> N]

\* the odd-divisor loop with "i * i < N" for its condition
RECURSIVE odd_factors_strict(_, _, _)
odd_factors_strict(factors, N, i) ==
    IF i * i < N
    THEN LET d == divide_out(factors, N, i)
         IN  odd_factors_strict(d.factors, d.N, i + 2)
    ELSE [factors |-> factors, N |-> N]

\* i = 3; while i * i <= N: (while N % i == 0: ...); i += 2
RECURSIVE odd_factors(_, _, _)
odd_factors(factors, N, i) ==
    IF i * i <= N
    THEN LET d == divide_out(factors, N, i)
         IN  odd_factors(d.factors, d.N, i + 2)
    ELSE [factors |-> factors, N |-> N]

classical_factorization(N) ==
    IF N < 2 THEN <<>>
    ELSE LET two == divide_out(<<>>, N, 2)
             odd == odd_factors(two.factors, two.N, 3)
         IN  IF odd.N > 1 THEN Append(odd.factors, odd.N) ELSE odd.factors

ClassicalFactorizationCall ==
    /\ pc = "idle"
    /\ \E N \in (-2)..MaxFactorN :
        /\ fn' = "classical_factorization"
        /\ args' = [N |-> N]
        /\ ret' = Return(classical_factorization(N))
    /\ loc' = [none |-> 0]
    /\ pc' = "done"

\* "if n_qubits > 10" of DeutschJozsaAlgorithm.run
DJMaxQubits == 10
\* "shots=1024" of DeutschJozsaAlgorithm.run
DJShots == 1024
\* "counts[all_zeros] > 900" of DeutschJozsaAlgorithm.run
ConstantThreshold == 900

\* "if n_qubits > 10" of QuantumMinMaxAlgorithm.run
MinMaxMaxQubits == 10
\* "shots=1000" of QuantumMinMaxAlgorithm.run
MinMaxShots == 1000
\* "success_rate = success_count / 1000" of QuantumMinMaxAlgorithm.run
MinMaxRateDivisor == 1000

\* "if n_counting_qubits > 10" of QuantumPhaseEstimation.run
QPEMaxQubits == 10
\* "shots=2048" of QuantumPhaseEstimation.run
QPEShots == 2048
\* "success_prob = counts[max_count_state] / 2048"
QPERateDivisor == 2048

\* "num_cases: int = 4" of generate_grover_data
GroverCases == 4
\* "num_cases: int = 6" of generate_deutsch_jozsa_data
DJCases == 6
\* "num_datasets: int = 4" of generate_min_max_data
MinMaxCases == 4
\* "num_cases: int = 6" of generate_phase_estimation_data
QPECases == 6
\* "max(q_metrics['wall_time_avg'], 1e-9)", times being counted in 1e-9 s
Epsilon == 1

\* test_phase_estimation: the phase 0.25 of U is one quarter of a turn; the
\* diagonal entries of U are whole numbers of quarter turns
QuarterTurns == 4

\* test_minimax of master.py: a root, its two nodes and their leaves, searched
\* with depth=3
TreeHeight == 2
SearchDepth == 3

\* float('inf') of minimax as an integer above every leaf value
float_inf == 100

-----------------------------------------------------------------------------
(* Bits and bitstrings *)

\* x & y on non-negative integers
RECURSIVE BitAnd(_, _)
BitAnd(x, y) ==
    IF x = 0 \/ y = 0 THEN 0
    ELSE (x % 2) * (y % 2) + 2 * BitAnd(x \div 2, y \div 2)

\* int(math.log2(s)) for s a power of two
RECURSIVE log2(_)
log2(s) == IF s <= 1 THEN 0 ELSE 1 + log2(s \div 2)

\* the binary digits of m >= 0, most significant first ("0" for 0)
RECURSIVE binary_digits(_)
binary_digits(m) ==
    IF m < 2 THEN <<m>> ELSE Append(binary_digits(m \div 2), m % 2)

\* format(m, '0{n}b'): the digits of m, filled with zeros on the left up to
\* n characters; a longer number keeps all its digits
format_binary(m, n) ==
    LET d == binary_digits(m)
    IN  IF Len(d) >= n THEN d ELSE [i \in 1..(n - Len(d)) |-> 0] \o d

\* reversed(binary)
reversed(seq) == [i \in 1..Len(seq) |-> seq[Len(seq) + 1 - i]]

\* int(bitstring, 2)
RECURSIVE int_base2(_)
int_base2(bits) ==
    IF bits = <<>> THEN 0
    ELSE 2 * int_base2(SubSeq(bits, 1, Len(bits) - 1)) + bits[Len(bits)]

\* the bitstrings a register of n qubits can be measured as
Bitstrings(n) == [1..n -> {0, 1}]

-----------------------------------------------------------------------------
(* The gates of a circuit *)

\* the value of qubit q in the basis state i of a register: qubit 0 is the
\* least significant bit of i
Bit(i, q) == (i \div 2 ^ q) % 2

\* the basis state that differs from i in qubit q
Flip(i, q) == IF Bit(i, q) = 0 THEN i + 2 ^ q ELSE i - 2 ^ q

\* the gates a circuit is built of
X(q) == [name |-> "x", target |-> q, control |-> q]
H(q) == [name |-> "h", target |-> q, control |-> q]
CX(c, t) == [name |-> "cx", target |-> t, control |-> c]
Z(q) == [name |-> "z", target |-> q, control |-> q]
CZ(c, t) == [name |-> "cz", target |-> t, control |-> c]
\* qc.mcx(list(range(k)), t): the controls are the qubits 0..k-1
MCX(k, t) == [name |-> "mcx", target |-> t, control |-> k]

\* qc.x, qc.h, qc.cx, qc.z, qc.cz and qc.mcx on a state vector. Amplitudes are integers: the
\* Hadamard gate is applied without its factor 1/sqrt(2), which scales every
\* amplitude of the register alike.
apply_gate(state, gate) ==
    [i \in DOMAIN state |->
        CASE gate.name = "x" -> state[Flip(i, gate.target)]
          [] gate.name = "h" ->
                IF Bit(i, gate.target) = 0
                THEN state[i] + state[Flip(i, gate.target)]
                ELSE state[Flip(i, gate.target)] - state[i]
          [] gate.name = "cx" ->
                IF Bit(i, gate.control) = 1
                THEN state[Flip(i, gate.target)]
                ELSE state[i]
          [] gate.name = "z" ->
                IF Bit(i, gate.target) = 1 THEN 0 - state[i] ELSE state[i]
          [] gate.name = "cz" ->
                IF Bit(i, gate.control) = 1 /\ Bit(i, gate.target) = 1
                THEN 0 - state[i]
                ELSE state[i]
          [] gate.name = "mcx" ->
                IF \A q \in 0..(gate.control - 1) : Bit(i, q) = 1
                THEN state[Flip(i, gate.target)]
                ELSE state[i]]

\* QuantumCircuit(qr, cr): a register of n qubits starts in the basis state 0
initial_state(n) == [i \in 0..(2 ^ n - 1) |-> IF i = 0 THEN 1 ELSE 0]

\* the X gates on the qubits whose character of reversed(binary) is '0'
RECURSIVE x_on_zeros(_, _)
x_on_zeros(bits, i) ==
    IF i >= Len(bits) THEN <<>>
    ELSE (IF bits[i + 1] = 0 THEN <<X(i)>> ELSE <<>>)
         \o x_on_zeros(bits, i + 1)

\* the multi-controlled Z gate of the oracle and of the diffusion operator
controlled_z(n_qubits) ==
    IF n_qubits = 1 THEN <<Z(0)>>
    ELSE IF n_qubits = 2 THEN <<CZ(0, 1)>>
    ELSE <<H(n_qubits - 1), MCX(n_qubits - 1, n_qubits - 1),
           H(n_qubits - 1)>>

\* qc.h(qr)
h_all(n_qubits) == [i \in 1..n_qubits |-> H(i - 1)]

\* qc.x(qr)
x_all(n_qubits) == [i \in 1..n_qubits |-> X(i - 1)]

\* _diffusion
diffusion(n_qubits) ==
    h_all(n_qubits) \o x_all(n_qubits)
    \o controlled_z(n_qubits)
    \o x_all(n_qubits) \o h_all(n_qubits)

-----------------------------------------------------------------------------
(* GroverAlgorithm.run *)

\* int(math.floor(math.pi / 4 * math.sqrt(space / marked))) for marked >= 1:
\* the largest k with 16 k^2 marked <= pi^2 space, pi^2 lying strictly
\* between 9.8696 and 9.8697
RECURSIVE iterations_from(_, _, _)
iterations_from(space, marked, k) ==
    IF 160000 * (k + 1) * (k + 1) * marked <= 98696 * space
    THEN iterations_from(space, marked, k + 1)
    ELSE k

\* the same number rounded to the nearest integer instead of down
iterations_rounded(space, marked) ==
    (iterations_from(4 * space, marked, 0) + 1) \div 2

grover_iterations(space, marked) == iterations_from(space, marked, 0)

\* _oracle indexes qr[i] for every character '0' of reversed(binary): an
\* index i >= n_qubits (0-based) is outside the register and raises
oracle_raises(marked_items, n_qubits) ==
    \E j \in 1..Len(marked_items) :
        LET bits == reversed(format_binary(marked_items[j], n_qubits))
        IN  \E i \in 1..Len(bits) : bits[i] = 0 /\ i - 1 >= n_qubits

\* the oracle without the X gates that follow the phase flip
RECURSIVE grover_oracle_without_undo(_, _, _)
grover_oracle_without_undo(marked_items, n_qubits, j) ==
    IF j > Len(marked_items) THEN <<>>
    ELSE LET binary == format_binary(marked_items[j], n_qubits)
             xs == x_on_zeros(reversed(binary), 0)
         IN  xs \o controlled_z(n_qubits)
             \o grover_oracle_without_undo(marked_items, n_qubits, j + 1)

\* _oracle, from the j-th marked item on
RECURSIVE grover_oracle(_, _, _)
grover_oracle(marked_items, n_qubits, j) ==
    IF j > Len(marked_items) THEN <<>>
    ELSE LET binary == format_binary(marked_items[j], n_qubits)
             xs == x_on_zeros(reversed(binary), 0)
         IN  xs \o controlled_z(n_qubits) \o xs
             \o grover_oracle(marked_items, n_qubits, j + 1)

\* for _ in range(n_iterations): self._oracle(...), self._diffusion(...)
RECURSIVE grover_amplification(_, _, _)
grover_amplification(marked_items, n_qubits, n_iterations) ==
    IF n_iterations = 0 THEN <<>>
    ELSE grover_oracle(marked_items, n_qubits, 1) \o diffusion(n_qubits)
         \o grover_amplification(marked_items, n_qubits, n_iterations - 1)

\* the measurement histograms: at most MaxOutcomes distinct bitstrings of n
\* bits, each with a count of at least one, the counts adding up to the shots
CountLevels == {1, 250, 500, 750, 999, Shots}

RECURSIVE SumOf(_, _)
SumOf(f, keys) ==
    IF keys = {} THEN 0
    ELSE LET k == CHOOSE k \in keys : TRUE
         IN  f[k] + SumOf(f, keys \ {k})

\* the sets of at most k elements of S
RECURSIVE subsets_up_to(_, _)
subsets_up_to(S, k) ==
    IF k = 0 THEN {{}}
    ELSE LET smaller == subsets_up_to(S, k - 1)
         IN  smaller \cup {K \cup {x} : K \in smaller, x \in S}

Histograms(n) ==
    UNION {{h \in [K -> CountLevels] : SumOf(h, K) = Shots} :
              K \in subsets_up_to(Bitstrings(n), MaxOutcomes) \ {{}}}

\* the keys of a dictionary in the order a for loop visits them
RECURSIVE items(_)
items(keys) ==
    IF keys = {} THEN <<>>
    ELSE LET k == CHOOSE k \in keys : TRUE
         IN  <<k>> \o items(keys \ {k})

InList(v, list) == \E i \in 1..Len(list) : list[i] = v

\* the loop over counts.items(), without the test "value in marked_items"
RECURSIVE analyze_unfiltered(_, _, _, _)
analyze_unfiltered(order, counts, marked_items, acc) ==
    IF order = <<>> THEN acc
    ELSE LET value == int_base2(Head(order))
         IN  analyze_unfiltered(Tail(order), counts, marked_items,
                 [found_items |-> Append(acc.found_items, value),
                  success_count |-> acc.success_count + counts[Head(order)]])

\* the loop over counts.items(): found_items and success_count
RECURSIVE analyze(_, _, _, _)
analyze(order, counts, marked_items, acc) ==
    IF order = <<>> THEN acc
    ELSE LET value == int_base2(Head(order))
         IN  analyze(Tail(order), counts, marked_items,
                 IF InList(value, marked_items)
                 THEN [found_items |-> Append(acc.found_items, value),
                       success_count |-> acc.success_count + counts[Head(order)]]
                 ELSE acc)

\* list(set(found_items))
list_of_set(list) == items({list[i] : i \in 1..Len(list)})

MarkedLists == UNION {[1..k -> 0..MaxMarked] : k \in 0..MaxMarkedLen}

\* A search space of one element makes a register of no qubits; what the
\* circuit library does with it is not part of this program, so run is
\* called on the other sizes.
\* the test cases of the module
GroverTestCases ==
    {[marked_items |-> <<5>>, search_space_size |-> 16],
     [marked_items |-> <<3, 7>>, search_space_size |-> 16],
     [marked_items |-> <<11>>, search_space_size |-> 32]}

GroverInputs ==
    [marked_items : MarkedLists, search_space_size : (0..MaxSpace) \ {1}]
    \cup GroverTestCases

\* run(marked_items, search_space_size) up to the measurement: the tests of
\* the arguments, the iteration count, the circuit with its oracle calls
GroverRunCall ==
    /\ pc = "idle"
    /\ \E in \in GroverInputs :
        LET size == in.search_space_size
            n_qubits == log2(size)
        IN  /\ fn' = "GroverAlgorithm.run"
            /\ args' = in
            /\ IF size = 0 \/ ~(BitAnd(size, size - 1) = 0)
               THEN /\ ret' = ReturnDict(
                              [error |-> "Search space must be a power of 2"])
                    /\ loc' = [none |-> 0]
                    /\ pc' = "done"
               ELSE IF n_qubits > MaxQubits
               THEN /\ ret' = ReturnDict(
                              [error |-> "Search space too large for simulation"])
                    /\ loc' = [n_qubits |-> n_qubits]
                    /\ pc' = "done"
               ELSE IF Len(in.marked_items) = 0
               THEN /\ ret' = Raise("ZeroDivisionError")
                    /\ loc' = [n_qubits |-> n_qubits]
                    /\ pc' = "done"
               ELSE LET n_iterations ==
                            grover_iterations(size, Len(in.marked_items))
                        built == [n_qubits |-> n_qubits,
                                  n_iterations |-> n_iterations,
                                  circuit |-> "qc"]
                    IN  IF n_iterations > 0
                           /\ oracle_raises(in.marked_items, n_qubits)
                        THEN /\ loc' = built
                             /\ ret' = Raise("IndexError")
                             /\ pc' = "done"
                        ELSE /\ loc' = built @@
                                    [qc |-> h_all(n_qubits)
                                            \o grover_amplification(
                                                   in.marked_items, n_qubits,
                                                   n_iterations)]
                             /\ ret' = NoResult
                             /\ pc' = "measure"

\* the result dictionary of run for the histogram counts
grover_result(marked_items, n_iterations, counts) ==
    LET a == analyze(items(DOMAIN counts), counts, marked_items,
                     [found_items |-> <<>>, success_count |-> 0])
    IN  [marked_items |-> marked_items,
         found_items |-> list_of_set(a.found_items),
         success_rate |-> [num |-> a.success_count, den |-> RateDivisor],
         iterations |-> n_iterations,
         measurements |-> counts,
         circuit |-> "qc"]

\* run: the circuit is executed and its histogram analysed
GroverRunMeasure ==
    /\ fn = "GroverAlgorithm.run"
    /\ pc = "measure"
    /\ \E counts \in Histograms(loc.n_qubits) :
        ret' = ReturnDict(
                   grover_result(args.marked_items, loc.n_iterations, counts))
    /\ pc' = "done"
    /\ UNCHANGED <<fn, args, loc>>

-----------------------------------------------------------------------------
(* classical_search *)

\* the for loop with the break taken at the first item found
RECURSIVE search_first(_, _, _, _)
search_first(marked_items, size, i, acc) ==
    IF i >= size THEN acc
    ELSE LET c == acc.comparisons + 1
         IN  IF InList(i, marked_items)
             THEN [found_items |-> Append(acc.found_items, i),
                   comparisons |-> c]
             ELSE search_first(marked_items, size, i + 1,
                               [acc EXCEPT !.comparisons = c])

\* for i in range(search_space_size): ..., from index i on
RECURSIVE search_loop(_, _, _, _)
search_loop(marked_items, size, i, acc) ==
    IF i >= size THEN acc
    ELSE LET c == acc.comparisons + 1
         IN  IF InList(i, marked_items)
             THEN LET found == Append(acc.found_items, i)
                  IN  IF Len(found) = Len(marked_items)
                      THEN [found_items |-> found, comparisons |-> c]
                      ELSE search_loop(marked_items, size, i + 1,
                               [found_items |-> found, comparisons |-> c])
             ELSE search_loop(marked_items, size, i + 1,
                              [acc EXCEPT !.comparisons = c])

classical_search(marked_items, size) ==
    LET out == search_loop(marked_items, size, 0,
                           [found_items |-> <<>>, comparisons |-> 0])
    IN  [found_items |-> out.found_items,
         comparisons |-> out.comparisons,
         average_comparisons |->
             IF Len(marked_items) # 0
             THEN [num |-> out.comparisons, den |-> Len(marked_items)]
             ELSE [num |-> out.comparisons, den |-> 1]]

SearchInputs == [marked_items : MarkedLists, search_space_size : 0..MaxSpace]

ClassicalSearchCall ==
    /\ pc = "idle"
    /\ \E in \in SearchInputs :
        /\ fn' = "classical_search"
        /\ args' = in
        /\ ret' = ReturnDict(
                      classical_search(in.marked_items, in.search_space_size))
    /\ loc' = [none |-> 0]
    /\ pc' = "done"

-----------------------------------------------------------------------------
(* The register of a circuit: its state vector *)

\* qc.measure(qr[i], cr[i]) for i in range(n): the values of the first n
\* qubits that a shot can yield, those of a non-zero probability
measured_support(state, n) ==
    {x \in 0..(2 ^ n - 1) :
        \E i \in DOMAIN state : i % 2 ^ n = x /\ state[i] # 0}

\* the numbers of shots a histogram can give an outcome
count_levels(shots) ==
    {1, shots \div 4, shots \div 2, 3 * (shots \div 4), shots - 1, shots}

\* backend.run(qc, shots).result().get_counts(): the histograms of at most
\* MaxOutcomes distinct outcomes of the support, keyed by the bitstring of
\* n characters, the counts adding up to the shots
get_counts(support, n, shots) ==
    UNION {{h \in [{format_binary(x, n) : x \in K} -> count_levels(shots)] :
                SumOf(h, DOMAIN h) = shots} :
              K \in {K \in SUBSET support : Cardinality(K) \in 1..MaxOutcomes}}

-----------------------------------------------------------------------------
(* DeutschJozsaAlgorithm.run *)

\* _oracle: the gates it appends; flip is the outcome of
\* "random.random() < 0.5"
oracle(n_qubits, function_type, flip) ==
    IF function_type = "constant"
    THEN IF flip THEN <<X(n_qubits)>> ELSE <<>>
    ELSE [i \in 1..n_qubits |-> CX(i - 1, n_qubits)]

\* the circuit without the Hadamard gates that follow the oracle
dj_circuit_without_interference(n_qubits, function_type, flip) ==
    <<X(n_qubits)>>
    \o [i \in 1..(n_qubits + 1) |-> H(i - 1)]
    \o oracle(n_qubits, function_type, flip)

\* the circuit run builds on its register of n_qubits + 1 qubits
dj_circuit(n_qubits, function_type, flip) ==
    <<X(n_qubits)>>
    \o [i \in 1..(n_qubits + 1) |-> H(i - 1)]
    \o oracle(n_qubits, function_type, flip)
    \o [i \in 1..n_qubits |-> H(i - 1)]

\* the test with ">=" in the place of ">"
detect_from_threshold(counts, n_qubits) ==
    LET all_zeros == [i \in 1..n_qubits |-> 0]
    IN  IF all_zeros \in DOMAIN counts
           /\ counts[all_zeros] >= ConstantThreshold
        THEN "constant"
        ELSE "balanced"

\* all_zeros = '0' * n_qubits and the test that gives detected_type
detect(counts, n_qubits) ==
    LET all_zeros == [i \in 1..n_qubits |-> 0]
    IN  IF all_zeros \in DOMAIN counts
           /\ counts[all_zeros] > ConstantThreshold
        THEN "constant"
        ELSE "balanced"

\* the result dictionary of run for the histogram counts
dj_result(n_qubits, function_type, counts) ==
    LET detected_type == detect(counts, n_qubits)
    IN  [n_qubits |-> n_qubits,
         actual_type |-> function_type,
         detected_type |-> detected_type,
         correct |-> (detected_type = function_type),
         measurements |-> counts,
         circuit |-> "qc",
         queries |-> 1]

FunctionTypes == {"constant", "balanced", "linear"}

\* A register with no input qubit is left to the circuit library, so run is
\* called with at least one.
DJInputs ==
    [n_qubits : (1..MaxDJQubits) \cup {DJMaxQubits, DJMaxQubits + 1},
     function_type : FunctionTypes]

\* run(n_qubits, function_type) up to the execution of the circuit: the test
\* of n_qubits, the register, the circuit with its oracle
DJRunCall ==
    /\ pc = "idle"
    /\ \E in \in DJInputs, flip \in BOOLEAN :
        /\ fn' = "DeutschJozsaAlgorithm.run"
        /\ args' = in
        /\ IF in.n_qubits > DJMaxQubits
           THEN /\ ret' = ReturnDict(
                          [error |-> "Too many qubits for simulation"])
                /\ loc' = [none |-> 0]
                /\ pc' = "done"
           ELSE IF in.function_type \notin {"constant", "balanced"}
           THEN /\ ret' = Raise("ValueError")
                /\ loc' = [qr |-> in.n_qubits + 1]
                /\ pc' = "done"
           ELSE /\ ret' = NoResult
                /\ loc' = [qr |-> in.n_qubits + 1,
                           qc |-> dj_circuit(in.n_qubits,
                                             in.function_type, flip),
                           executed |-> 0,
                           state |-> initial_state(in.n_qubits + 1)]
                /\ pc' = "execute"

\* the simulator applies the next gate of the circuit
DJRunGate ==
    /\ fn = "DeutschJozsaAlgorithm.run"
    /\ pc = "execute"
    /\ loc.executed < Len(loc.qc)
    /\ loc' = [loc EXCEPT
                  !.executed = loc.executed + 1,
                  !.state = apply_gate(loc.state, loc.qc[loc.executed + 1])]
    /\ UNCHANGED <<fn, pc, args, ret>>

\* run: the input qubits are measured and the histogram analysed
DJRunMeasure ==
    /\ fn = "DeutschJozsaAlgorithm.run"
    /\ pc = "execute"
    /\ loc.executed = Len(loc.qc)
    /\ \E counts \in get_counts(measured_support(loc.state, args.n_qubits),
                                args.n_qubits, DJShots) :
        ret' = ReturnDict(dj_result(args.n_qubits, args.function_type, counts))
    /\ pc' = "done"
    /\ UNCHANGED <<fn, args, loc>>

\* the all-zero counts the analysis is applied to: the all-zero string holds
\* z of the shots and the all-one string the others, a string of no shot
\* being absent from the histogram
zero_histogram(n_qubits, z) ==
    LET all_zeros == [i \in 1..n_qubits |-> 0]
        all_ones == [i \in 1..n_qubits |-> 1]
    IN  [b \in (IF z > 0 THEN {all_zeros} ELSE {})
               \cup (IF z < DJShots THEN {all_ones} ELSE {})
           |-> IF b = all_zeros THEN z ELSE DJShots - z]

\* the analysis of run on a histogram of DJShots shots
DJAnalysisCall ==
    /\ pc = "idle"
    /\ \E n_qubits \in {1, MaxDJQubits}, z \in 0..DJShots,
          function_type \in {"constant", "balanced"} :
        /\ fn' = "DeutschJozsaAlgorithm.run:analysis"
        /\ args' = [n_qubits |-> n_qubits, function_type |-> function_type]
        /\ ret' = ReturnDict(dj_result(n_qubits, function_type,
                                       zero_histogram(n_qubits, z)))
    /\ loc' = [none |-> 0]
    /\ pc' = "done"

-----------------------------------------------------------------------------
(* classical_deutsch_jozsa *)

\* half the inputs, without the one query more
half_of_inputs(n_qubits) == (2 ^ n_qubits) \div 2

\* input_size = 2 ** n_qubits; queries_needed = (input_size // 2) + 1
queries_needed(n_qubits) == (2 ^ n_qubits) \div 2 + 1

\* [v] * k
repeat(v, k) == [i \in 1..k |-> v]

\* set(outputs)
set_of(list) == {list[i] : i \in 1..Len(list)}

Occurrences(list, v) == Cardinality({i \in 1..Len(list) : list[i] = v})

\* random.shuffle(outputs): the orders the list can be left in
shuffle(list) ==
    {s \in [1..Len(list) -> set_of(list)] :
        \A v \in set_of(list) : Occurrences(s, v) = Occurrences(list, v)}

\* the lists of outputs the queries can be simulated as
simulated_outputs(function_type, queries) ==
    IF function_type = "constant"
    THEN {repeat(output, queries) : output \in {0, 1}}
    ELSE shuffle(repeat(0, queries \div 2)
                 \o repeat(1, queries - queries \div 2))

ClassicalDeutschJozsaCall ==
    /\ pc = "idle"
    /\ \E n_qubits \in 0..MaxClassicalQubits, function_type \in FunctionTypes :
        \E outputs \in simulated_outputs(function_type,
                                         queries_needed(n_qubits)) :
            LET detected_type ==
                    IF Cardinality(set_of(outputs)) = 1
                    THEN "constant" ELSE "balanced"
            IN  /\ fn' = "classical_deutsch_jozsa"
                /\ args' = [n_qubits |-> n_qubits,
                            function_type |-> function_type]
                /\ loc' = [outputs |-> outputs]
                /\ ret' = ReturnDict(
                       [n_qubits |-> n_qubits,
                        actual_type |-> function_type,
                        detected_type |-> detected_type,
                        queries |-> queries_needed(n_qubits),
                        correct |-> (detected_type = function_type)])
    /\ pc' = "done"

-----------------------------------------------------------------------------
(* classical_min_max *)

\* the scan with "<=" and ">=" in the place of "<" and ">"
RECURSIVE scan_keeping_last(_, _, _, _)
scan_keeping_last(data, find_min, i, acc) ==
    IF i >= Len(data) THEN acc
    ELSE LET better == IF find_min THEN data[i + 1] <= acc.target
                                   ELSE data[i + 1] >= acc.target
         IN  scan_keeping_last(data, find_min, i + 1,
                 [target |-> IF better THEN data[i + 1] ELSE acc.target,
                  target_idx |-> IF better THEN i ELSE acc.target_idx,
                  comparisons |-> acc.comparisons + 1])

\* for i in range(1, len(data)): ..., from index i on (data[i] of the code is
\* data[i + 1] here, sequences being counted from 1)
RECURSIVE scan(_, _, _, _)
scan(data, find_min, i, acc) ==
    IF i >= Len(data) THEN acc
    ELSE LET better == IF find_min THEN data[i + 1] < acc.target
                                   ELSE data[i + 1] > acc.target
         IN  scan(data, find_min, i + 1,
                 [target |-> IF better THEN data[i + 1] ELSE acc.target,
                  target_idx |-> IF better THEN i ELSE acc.target_idx,
                  comparisons |-> acc.comparisons + 1])

classical_min_max(data, find_min) ==
    IF Len(data) = 0 THEN [error |-> "Empty data list"]
    ELSE LET out == scan(data, find_min, 1,
                         [target |-> data[1], target_idx |-> 0,
                          comparisons |-> 0])
         IN  [data |-> data,
              find_min |-> find_min,
              value |-> out.target,
              index |-> out.target_idx,
              comparisons |-> out.comparisons]

DataLists == UNION {[1..k -> 0..MaxDataValue] : k \in 0..MaxDataLen}

ClassicalMinMaxCall ==
    /\ pc = "idle"
    /\ \E data \in DataLists, find_min \in BOOLEAN :
        /\ fn' = "classical_min_max"
        /\ args' = [data |-> data, find_min |-> find_min]
        /\ ret' = ReturnDict(classical_min_max(data, find_min))
    /\ loc' = [none |-> 0]
    /\ pc' = "done"

-----------------------------------------------------------------------------
(* QuantumMinMaxAlgorithm.run *)

\* math.ceil(math.log2(n)) for n >= 1: the least k with 2^k >= n
RECURSIVE ceil_log2(_)
ceil_log2(n) == IF n <= 1 THEN 0 ELSE 1 + ceil_log2((n + 1) \div 2)

\* float('inf') and float('-inf') among the values of the data: a value
\* above, and one below, every value a list holds
inf == MaxDataValue + 1
minus_inf == 0 - 1

\* min(data) and max(data) of a non-empty list
min(data) ==
    CHOOSE v \in set_of(data) : \A w \in set_of(data) : v <= w

max(data) ==
    CHOOSE v \in set_of(data) : \A w \in set_of(data) : v >= w

\* the first index only of those that hold the target value
first_target_index(data, target_value) ==
    LET i == CHOOSE i \in 1..Len(data) :
                 /\ data[i] = target_value
                 /\ \A j \in 1..(i - 1) : data[j] # target_value
    IN  <<i - 1>>

\* [i for i, val in enumerate(data) if val == target_value]
target_indices(data, target_value) ==
    LET holds_target(i) == data[i + 1] = target_value
    IN  SelectSeq([i \in 1..Len(data) |-> i - 1], holds_target)

\* _min_max_oracle, from the j-th target index on
RECURSIVE min_max_oracle(_, _, _)
min_max_oracle(indices, n_qubits, j) ==
    IF j > Len(indices) THEN <<>>
    ELSE LET binary == format_binary(indices[j], n_qubits)
             xs == x_on_zeros(reversed(binary), 0)
         IN  xs \o controlled_z(n_qubits) \o xs
             \o min_max_oracle(indices, n_qubits, j + 1)

\* for _ in range(n_iterations): oracle and diffusion
RECURSIVE amplification(_, _, _)
amplification(indices, n_qubits, n_iterations) ==
    IF n_iterations = 0 THEN <<>>
    ELSE min_max_oracle(indices, n_qubits, 1) \o diffusion(n_qubits)
         \o amplification(indices, n_qubits, n_iterations - 1)

\* a list of more values than MinMaxMaxQubits qubits can index
LongData == [i \in 1..(2 ^ MinMaxMaxQubits + 1) |-> 1]

\* A list of one value makes a register of no qubits, which is left to the
\* circuit library: run is called on the empty list and on longer ones.
MinMaxInputs ==
    [data : {d \in DataLists : Len(d) # 1} \cup {LongData},
     find_min : BOOLEAN]

\* run(data, find_min) up to the execution of the circuit. The list object
\* data is in loc as the statements leave it.
MinMaxRunCall ==
    /\ pc = "idle"
    /\ \E in \in MinMaxInputs :
        /\ fn' = "QuantumMinMaxAlgorithm.run"
        /\ args' = in
        /\ IF Len(in.data) = 0
           THEN /\ ret' = ReturnDict([error |-> "Empty data list"])
                /\ loc' = [data |-> in.data]
                /\ pc' = "done"
           ELSE LET n == Len(in.data)
                    power_of_2 == 2 ^ ceil_log2(n)
                    padded_data ==
                        in.data \o repeat(IF in.find_min THEN inf
                                          ELSE minus_inf, power_of_2 - n)
                    target_value ==
                        IF in.find_min THEN min(in.data) ELSE max(in.data)
                    indices == target_indices(in.data, target_value)
                    n_qubits == log2(power_of_2)
                    n_iterations ==
                        grover_iterations(power_of_2, Len(indices))
                    common == [data |-> in.data,
                               padded_data |-> padded_data,
                               target_value |-> target_value,
                               target_indices |-> indices,
                               n_qubits |-> n_qubits]
                IN  IF n_qubits > MinMaxMaxQubits
                    THEN /\ ret' = ReturnDict(
                                [error |-> "Data size too large for simulation"])
                         /\ loc' = common
                         /\ pc' = "done"
                    ELSE /\ ret' = NoResult
                         /\ loc' = common @@
                                [n_iterations |-> n_iterations,
                                 qr |-> n_qubits,
                                 qc |-> h_all(n_qubits)
                                        \o amplification(indices, n_qubits,
                                                         n_iterations),
                                 executed |-> 0,
                                 state |-> initial_state(n_qubits)]
                         /\ pc' = "execute"

\* the simulator applies the next gate of the circuit
MinMaxRunGate ==
    /\ fn = "QuantumMinMaxAlgorithm.run"
    /\ pc = "execute"
    /\ loc.executed < Len(loc.qc)
    /\ loc' = [loc EXCEPT
                  !.executed = loc.executed + 1,
                  !.state = apply_gate(loc.state, loc.qc[loc.executed + 1])]
    /\ UNCHANGED <<fn, pc, args, ret>>

\* sum(counts.get(format(idx, '0nb'), 0) for idx in target_indices)
RECURSIVE success_count(_, _, _, _)
success_count(counts, indices, n_qubits, j) ==
    IF j > Len(indices) THEN 0
    ELSE LET key == format_binary(indices[j], n_qubits)
         IN  (IF key \in DOMAIN counts THEN counts[key] ELSE 0)
             + success_count(counts, indices, n_qubits, j + 1)

\* max(counts, key=counts.get): a key of the greatest count, the first of
\* them in the order of the dictionary, which the library decides
most_frequent(counts) ==
    {k \in DOMAIN counts : \A other \in DOMAIN counts : counts[other] <= counts[k]}

\* the result dictionary of run for the histogram counts
min_max_result(l, find_min, counts, max_count_state) ==
    LET found_index == int_base2(max_count_state)
        valid == found_index < Len(l.data)
    IN  [data |-> l.data,
         find_min |-> find_min,
         target_value |-> l.target_value,
         target_indices |-> l.target_indices,
         found_index |-> found_index,
         found_value |-> IF valid THEN Some(l.data[found_index + 1]) ELSE None,
         success |-> (valid /\ l.data[found_index + 1] = l.target_value),
         success_rate |->
             [num |-> success_count(counts, l.target_indices, l.n_qubits, 1),
              den |-> MinMaxRateDivisor],
         iterations |-> l.n_iterations,
         measurements |-> counts]

\* run: the register is measured and the histogram analysed
MinMaxRunMeasure ==
    /\ fn = "QuantumMinMaxAlgorithm.run"
    /\ pc = "execute"
    /\ loc.executed = Len(loc.qc)
    /\ \E counts \in get_counts(measured_support(loc.state, loc.n_qubits),
                                loc.n_qubits, MinMaxShots) :
        \E max_count_state \in most_frequent(counts) :
            ret' = ReturnDict(min_max_result(loc, args.find_min, counts,
                                             max_count_state))
    /\ pc' = "done"
    /\ UNCHANGED <<fn, args, loc>>

-----------------------------------------------------------------------------
(* QuantumPhaseEstimation.run *)

\* A phase is a fraction [num, den] whose denominator is a power of two, in
\* lowest terms. Angles are counted in steps of 2 pi / 2^bits, where 2^bits
\* is the greater of the denominator and 2^n_counting_qubits, and an
\* amplitude is a sum of powers of w = e^(2 pi i / 2^bits): the list of the
\* integer coefficients of w^0 .. w^(2^(bits-1) - 1), the higher powers being
\* the negated lower ones. The powers below 2^(bits-1) are linearly
\* independent, so an amplitude is zero only if all its coefficients are.
Phases ==
    {[num |-> num, den |-> 2 ^ s] :
        <<num, s>> \in {p \in (-1..2 ^ MaxPhaseBits) \X (0..MaxPhaseBits) :
                           /\ p[1] <= 2 ^ p[2]
                           /\ p[1] % 2 = 1 \/ p[2] = 0}}

angle_bits(phase, n_counting_qubits) ==
    IF phase.den > 2 ^ n_counting_qubits THEN log2(phase.den)
    ELSE n_counting_qubits

\* the rotations with the angle 2 pi phase for every counting qubit
angle_without_power(phase, i, bits) ==
    (phase.num * (2 ^ bits \div phase.den)) % 2 ^ bits

\* power = 2 ** i; angle = 2 * np.pi * phase * power, in steps of
\* 2 pi / 2^bits
angle(phase, i, bits) ==
    (phase.num * 2 ^ i * (2 ^ bits \div phase.den)) % 2 ^ bits

\* the counting register after qc.h(qr_count) and the loop of qc.cp on the
\* eigenstate |1>: the basis state j has the amplitude w^e, e being the sum
\* of the angles of the qubits that are 1 in j
controlled_rotations(phase, n_counting_qubits) ==
    LET bits == angle_bits(phase, n_counting_qubits)
        qubits == 0..(n_counting_qubits - 1)
    IN  [j \in 0..(2 ^ n_counting_qubits - 1) |->
            SumOf([i \in qubits |-> Bit(j, i) * angle(phase, i, bits)],
                  qubits) % 2 ^ bits]

\* QFT(n_counting_qubits, inverse=True) on the counting register: the
\* amplitude of the outcome y is the sum over j of w^(e[j] - j y 2^(bits - n))
inverse_qft(rotated, n_counting_qubits, bits) ==
    LET basis == 0..(2 ^ n_counting_qubits - 1)
        half == 2 ^ (bits - 1)
        power(j, y) ==
            (rotated[j] - j * y * 2 ^ (bits - n_counting_qubits)) % 2 ^ bits
    IN  [y \in basis |->
            [e \in 0..(half - 1) |->
                Cardinality({j \in basis : power(j, y) = e})
                - Cardinality({j \in basis : power(j, y) = e + half})]]

\* qc.measure(qr_count, cr): the outcomes of a non-zero amplitude
qpe_support(amplitudes) ==
    {y \in DOMAIN amplitudes :
        \E e \in DOMAIN amplitudes[y] : amplitudes[y][e] # 0}

Abs(x) == IF x < 0 THEN 0 - x ELSE x

\* the result dictionary of run for the histogram counts
qpe_result(phase, n_counting_qubits, counts, max_count_state) ==
    LET measured_int == int_base2(max_count_state)
        scale == 2 ^ n_counting_qubits
    IN  [actual_phase |-> phase,
         estimated_phase |-> [num |-> measured_int, den |-> scale],
         error |-> [num |-> Abs(measured_int * phase.den - phase.num * scale),
                    den |-> scale * phase.den],
         precision |-> [num |-> 1, den |-> scale],
         n_counting_qubits |-> n_counting_qubits,
         success_probability |->
             [num |-> counts[max_count_state], den |-> QPERateDivisor],
         measured_state |-> max_count_state,
         measured_int |-> measured_int,
         measurements |-> counts,
         circuit |-> "qc"]

\* A register of no counting qubit is left to the circuit library, so run is
\* called with at least one.
QPEInputs ==
    [phase : Phases,
     n_counting_qubits : (1..MaxCounting) \cup {QPEMaxQubits + 1}]

\* run(phase, n_counting_qubits) up to the execution of the circuit
QPERunCall ==
    /\ pc = "idle"
    /\ \E in \in QPEInputs :
        /\ fn' = "QuantumPhaseEstimation.run"
        /\ args' = in
        /\ IF in.n_counting_qubits > QPEMaxQubits
           THEN /\ ret' = ReturnDict(
                          [error |-> "Too many qubits for simulation"])
                /\ loc' = [none |-> 0]
                /\ pc' = "done"
           ELSE IF in.phase.num < 0 \/ in.phase.num >= in.phase.den
           THEN /\ ret' = ReturnDict(
                          [error |-> "Phase must be in range [0, 1)"])
                /\ loc' = [none |-> 0]
                /\ pc' = "done"
           ELSE /\ ret' = NoResult
                /\ loc' = [qr |-> in.n_counting_qubits + 1,
                           rotated |-> controlled_rotations(
                                           in.phase, in.n_counting_qubits)]
                /\ pc' = "measure"

\* run: the circuit is executed, the counting register measured and the
\* histogram analysed
QPERunMeasure ==
    /\ fn = "QuantumPhaseEstimation.run"
    /\ pc = "measure"
    /\ LET n == args.n_counting_qubits
           amplitudes == inverse_qft(loc.rotated, n,
                                     angle_bits(args.phase, n))
       IN  \E counts \in get_counts(qpe_support(amplitudes), n, QPEShots) :
             \E max_count_state \in most_frequent(counts) :
               ret' = ReturnDict(qpe_result(args.phase, n, counts,
                                            max_count_state))
    /\ pc' = "done"
    /\ UNCHANGED <<fn, args, loc>>

-----------------------------------------------------------------------------
(* AlgorithmRunner.run_all_algorithms *)

Stages == <<"shor", "grover", "deutsch_jozsa", "min_max", "phase_estimation">>

\* the scenarios a dataset is made of: for every algorithm one that its run
\* method accepts and one for which it returns a failure result (N above the
\* simulation limit, a search space that is no power of two, too many
\* qubits, an empty list, a phase outside [0, 1))
Scenarios ==
    [shor |-> {[N |-> 15], [N |-> 35]},
     grover |-> {[marked_items |-> <<1>>, space_size |-> 4],
                 [marked_items |-> <<1>>, space_size |-> 3]},
     deutsch_jozsa |-> {[n_qubits |-> 1, func_type |-> "constant"],
                        [n_qubits |-> DJMaxQubits + 1,
                         func_type |-> "balanced"]},
     min_max |-> {[data |-> <<2, 0, 1>>], [data |-> <<>>]},
     phase_estimation |-> {[phase |-> [num |-> 1, den |-> 4], n_qubits |-> 2],
                           [phase |-> [num |-> 1, den |-> 1], n_qubits |-> 2]}]

\* the datasets: a list of scenarios for every algorithm
Datasets ==
    UNION {[shor : [1..l[1] -> Scenarios.shor],
            grover : [1..l[2] -> Scenarios.grover],
            deutsch_jozsa : [1..l[3] -> Scenarios.deutsch_jozsa],
            min_max : [1..l[4] -> Scenarios.min_max],
            phase_estimation : [1..l[5] -> Scenarios.phase_estimation]] :
              l \in {l \in [1..5 -> 0..MaxScenarios] :
                        l[1] + l[2] + l[3] + l[4] + l[5] <= MaxScenarios}}

\* the keys of q_result['result']: those of the dictionary the run method of
\* the stage returns for the scenario
result_keys(stage, scenario) ==
    CASE stage = "shor" ->
            IF scenario.N % 2 # 0 /\ scenario.N > SimulationLimitN
            THEN {"factors", "error"}
            ELSE {"factors", "method", "period", "base", "error"}
      [] stage = "grover" ->
            IF \/ scenario.space_size = 0
               \/ BitAnd(scenario.space_size, scenario.space_size - 1) # 0
               \/ log2(scenario.space_size) > MaxQubits
            THEN {"error"}
            ELSE {"marked_items", "found_items", "success_rate",
                  "iterations", "measurements", "circuit"}
      [] stage = "deutsch_jozsa" ->
            IF scenario.n_qubits > DJMaxQubits
            THEN {"error"}
            ELSE {"n_qubits", "actual_type", "detected_type", "correct",
                  "measurements", "circuit", "queries"}
      [] stage = "min_max" ->
            IF Len(scenario.data) = 0
            THEN {"error"}
            ELSE IF ceil_log2(Len(scenario.data)) > MinMaxMaxQubits
            THEN {"error"}
            ELSE {"data", "find_min", "target_value", "target_indices",
                  "found_index", "found_value", "success", "success_rate",
                  "iterations", "measurements"}
      [] stage = "phase_estimation" ->
            IF scenario.n_qubits > QPEMaxQubits
            THEN {"error"}
            ELSE IF scenario.phase.num < 0
                    \/ scenario.phase.num >= scenario.phase.den
            THEN {"error"}
            ELSE {"actual_phase", "estimated_phase", "error", "precision",
                  "n_counting_qubits", "success_probability",
                  "measured_state", "measured_int", "measurements", "circuit"}

\* the keys the loop body of a stage reads with q_result['result'][key]
subscripted_keys(stage) ==
    CASE stage = "shor" -> {}
      [] stage = "grover" -> {"found_items", "success_rate", "iterations"}
      [] stage = "deutsch_jozsa" -> {"detected_type", "correct", "queries"}
      [] stage = "min_max" -> {"found_value", "found_index", "success_rate"}
      [] stage = "phase_estimation" ->
            {"estimated_phase", "error", "success_probability"}

\* the entry results.append(...) adds for a scenario: the fields that name
\* the scenario; the measured figures of the entry are left out
entry(stage, scenario) == scenario

\* the stage that follows
next_stage(stage) ==
    CASE stage = "shor" -> "grover"
      [] stage = "grover" -> "deutsch_jozsa"
      [] stage = "deutsch_jozsa" -> "min_max"
      [] stage = "min_max" -> "phase_estimation"
      [] stage = "phase_estimation" -> "print_summary"

\* AlgorithmRunner(datasets).run_all_algorithms() begins: self.results is
\* empty, a stage of None has not stored its list yet
RunAllCall ==
    /\ pc = "idle"
    /\ \E datasets \in Datasets :
        /\ fn' = "AlgorithmRunner.run_all_algorithms"
        /\ args' = [datasets |-> datasets]
    /\ loc' = [stage |-> "shor",
               position |-> 0,
               results |-> <<>>,
               self_results |-> [i \in 1..5 |-> None]]
    /\ ret' = NoResult
    /\ pc' = "running"

\* one pass of the for loop of a stage, or the statement after the loop:
\* self.results[stage] = results
RunStage(k) ==
    LET stage == Stages[k]
        dataset == args.datasets[stage]
    IN  /\ fn = "AlgorithmRunner.run_all_algorithms"
        /\ pc = "running"
        /\ loc.stage = stage
        /\ IF loc.position < Len(dataset)
           THEN LET scenario == dataset[loc.position + 1]
                IN  IF subscripted_keys(stage)
                           \subseteq result_keys(stage, scenario)
                    THEN /\ loc' = [loc EXCEPT
                                      !.position = loc.position + 1,
                                      !.results = Append(loc.results,
                                                    entry(stage, scenario))]
                         /\ UNCHANGED <<pc, ret>>
                    ELSE /\ ret' = Raise("KeyError")
                         /\ pc' = "done"
                         /\ UNCHANGED loc
           ELSE /\ loc' = [loc EXCEPT
                             !.self_results[k] = Some(loc.results),
                             !.stage = next_stage(stage),
                             !.position = 0,
                             !.results = <<>>]
                /\ UNCHANGED <<pc, ret>>
        /\ UNCHANGED <<fn, args>>

run_shor == RunStage(1)

run_grover == RunStage(2)

run_deutsch_jozsa == RunStage(3)

run_min_max == RunStage(4)

run_phase_estimation == RunStage(5)

\* print_summary divides by the length of every list but that of Shor; then
\* run_all_algorithms returns self.results
print_summary ==
    /\ fn = "AlgorithmRunner.run_all_algorithms"
    /\ pc = "running"
    /\ loc.stage = "print_summary"
    /\ IF \E k \in 2..5 : loc.self_results[k] = Some(<<>>)
       THEN ret' = Raise("ZeroDivisionError")
       ELSE ret' = ReturnDict(
                       [shor |-> loc.self_results[1][1],
                        grover |-> loc.self_results[2][1],
                        deutsch_jozsa |-> loc.self_results[3][1],
                        min_max |-> loc.self_results[4][1],
                        phase_estimation |-> loc.self_results[5][1]])
    /\ pc' = "done"
    /\ UNCHANGED <<fn, args, loc>>

-----------------------------------------------------------------------------
(* main: two executions with the same seed *)

\* A generator of random numbers is [seed, drawn]: its seed and how many
\* values have been drawn from it. The value it yields next is fixed by the
\* generator it comes from, the seed and the position.
generator(seed) == [seed |-> seed, drawn |-> 0]

value(source, gen, k) ==
    [source |-> source, seed |-> gen.seed, position |-> gen.drawn + k]

advance(gen, k) == [gen EXCEPT !.drawn = gen.drawn + k]

\* generate_all_datasets: every dataset is made of the values of the random
\* module, here one for a dataset
generate_all_datasets(random) ==
    [shor |-> value("random", random, 0),
     grover |-> value("random", random, 1),
     deutsch_jozsa |-> value("random", random, 2),
     min_max |-> value("random", random, 3),
     phase_estimation |-> value("random", random, 4)]

\* the values run_all_algorithms draws, in the order of the calls:
\* backend.run of Grover, random.random of the oracle, backend.run of
\* Deutsch-Jozsa, random.shuffle of classical_deutsch_jozsa, backend.run of
\* the extremum search and of the phase estimation, np.random.normal of
\* classical_phase_estimation
run_draws(l) ==
    <<value("aer", l.aer, 0),
      value("random", l.random, 0),
      value("aer", l.aer, 1),
      value("random", l.random, 1),
      value("aer", l.aer, 2),
      value("aer", l.aer, 3),
      value("numpy", l.numpy, 0)>>

\* self.results: Shor's entries and those of Deutsch-Jozsa follow from the
\* dataset, the others hold figures of the measured histogram
run_results(l) ==
    [shor |-> [dataset |-> l.datasets.shor],
     grover |-> [dataset |-> l.datasets.grover,
                 success_rate |-> value("aer", l.aer, 0)],
     deutsch_jozsa |-> [dataset |-> l.datasets.deutsch_jozsa],
     min_max |-> [dataset |-> l.datasets.min_max,
                  success_rate |-> value("aer", l.aer, 2)],
     phase_estimation |-> [dataset |-> l.datasets.phase_estimation,
                           quantum_error |-> value("aer", l.aer, 3)]]

Seeds == 0..MaxSeed

\* main with a seed on the command line: DatasetGenerator(seed) calls
\* random.seed(seed); the generators of numpy and of the simulator are not
\* seeded by the program and start from a seed of the system
MainCall ==
    /\ pc = "idle"
    /\ \E seed \in Seeds, numpy_seed \in Seeds, aer_seed \in Seeds :
        /\ args' = [seed |-> seed]
        /\ loc' = [execution |-> 1,
                   random |-> generator(seed),
                   numpy |-> generator(numpy_seed),
                   aer |-> generator(aer_seed)]
    /\ fn' = "main"
    /\ ret' = NoResult
    /\ pc' = "generate"

\* generator.generate_all_datasets()
MainGenerate ==
    /\ fn = "main"
    /\ pc = "generate"
    /\ loc' = [datasets |-> generate_all_datasets(loc.random)]
              @@ [loc EXCEPT !.random = advance(loc.random, 5)]
    /\ pc' = "run"
    /\ UNCHANGED <<fn, args, ret>>

\* runner.run_all_algorithms() on the generated datasets
MainRunAll ==
    /\ fn = "main"
    /\ pc = "run"
    /\ loc' = [draws |-> run_draws(loc), results |-> run_results(loc)]
              @@ [loc EXCEPT !.random = advance(loc.random, 2),
                             !.aer = advance(loc.aer, 4),
                             !.numpy = advance(loc.numpy, 1)]
    /\ pc' = IF loc.execution = 1 THEN "again" ELSE "done"
    /\ UNCHANGED <<fn, args, ret>>

\* the program is started once more with the same seed
MainAgain ==
    /\ fn = "main"
    /\ pc = "again"
    /\ \E numpy_seed \in Seeds, aer_seed \in Seeds :
        loc' = [execution |-> 2,
                random |-> generator(args.seed),
                numpy |-> generator(numpy_seed),
                aer |-> generator(aer_seed),
                first |-> [datasets |-> loc.datasets,
                           draws |-> loc.draws,
                           results |-> loc.results]]
    /\ pc' = "generate"
    /\ UNCHANGED <<fn, args, ret>>

-----------------------------------------------------------------------------
(* The marking oracles, called on their own *)

\* backend.run(qc): the simulator applies the gates of qc, from the k-th on
RECURSIVE execute(_, _, _)
execute(state, qc, k) ==
    IF k > Len(qc) THEN state
    ELSE execute(apply_gate(state, qc[k]), qc, k + 1)

\* a register of n qubits in the basis state b
basis_state(n, b) == [i \in 0..(2 ^ n - 1) |-> IF i = b THEN 1 ELSE 0]

\* the operator a circuit applies to a register of n qubits: the state the
\* gates leave the register in, for each basis state it can start in. Every
\* gate is linear, so these states fix what the circuit does to any state.
operator_of(qc, n) ==
    [b \in 0..(2 ^ n - 1) |-> execute(basis_state(n, b), qc, 1)]

\* marked_items as run passes it on: the caller's list, in any order and with
\* an index more than once
MarkedItemLists(n) ==
    UNION {[1..k -> 0..(2 ^ n - 1)] : k \in 1..MaxOracleMarked}

\* target_indices as run builds it: the indices in ascending order
TargetIndexLists(n) ==
    {l \in MarkedItemLists(n) : \A i \in 1..(Len(l) - 1) : l[i] < l[i + 1]}

\* _oracle(qc, qr, marked_items, n_qubits) on an empty circuit, and the
\* operator of the gates it appended
GroverOracleCall ==
    /\ pc = "idle"
    /\ \E n \in 1..MaxOracleQubits : \E marked_items \in MarkedItemLists(n) :
        LET qc == grover_oracle(marked_items, n, 1)
        IN  /\ args' = [marked_items |-> marked_items, n_qubits |-> n]
            /\ loc' = [qc |-> qc, unitary |-> operator_of(qc, n)]
    /\ fn' = "GroverAlgorithm._oracle"
    /\ ret' = Return(None)
    /\ pc' = "done"

\* _min_max_oracle(qc, qr, target_indices, n_qubits) on an empty circuit
MinMaxOracleCall ==
    /\ pc = "idle"
    /\ \E n \in 1..MaxOracleQubits : \E indices \in TargetIndexLists(n) :
        LET qc == min_max_oracle(indices, n, 1)
        IN  /\ args' = [target_indices |-> indices, n_qubits |-> n]
            /\ loc' = [qc |-> qc, unitary |-> operator_of(qc, n)]
    /\ fn' = "QuantumMinMaxAlgorithm._min_max_oracle"
    /\ ret' = Return(None)
    /\ pc' = "done"

-----------------------------------------------------------------------------
(* measure *)

\* sum(list)
RECURSIVE sum(_)
sum(list) == IF list = <<>> THEN 0 ELSE Head(list) + sum(Tail(list))

\* sum(wall_times) / repeat for repeat >= 1
avg_wall_of(wall_times, k) == [num |-> sum(wall_times), den |-> k]

\* the same sum of squares divided by repeat - 1
variance_of_sample(wall_times, k) ==
    [num |-> sum([j \in 1..Len(wall_times) |->
                     (k * wall_times[j] - sum(wall_times))
                     * (k * wall_times[j] - sum(wall_times))]),
     den |-> k * k * (k - 1)]

\* sum((t - avg_wall) ** 2 for t in wall_times) / repeat for repeat >= 1: with
\* avg_wall = S / repeat every term is (repeat * t - S)^2 / repeat^2
variance_of(wall_times, k) ==
    [num |-> sum([j \in 1..Len(wall_times) |->
                     (k * wall_times[j] - sum(wall_times))
                     * (k * wall_times[j] - sum(wall_times))]),
     den |-> k * k * k]

\* measure(func, repeat=k): the lists are empty and result is None
MeasureCall ==
    /\ pc = "idle"
    /\ \E k \in 0..MaxRepeat :
        /\ args' = [repeat |-> k]
        /\ loc' = [wall_times |-> <<>>, result |-> None, iteration |-> 0,
                   calls |-> 0, probes |-> 0]
    /\ fn' = "measure"
    /\ ret' = NoResult
    /\ pc' = "loop"

\* for _ in range(repeat): the probes are read, the clock is started and
\* func is called
MeasureStart ==
    /\ fn = "measure"
    /\ pc = "loop"
    /\ loc.iteration < args.repeat
    /\ loc' = [loc EXCEPT !.iteration = loc.iteration + 1,
                          !.calls = loc.calls + 1]
    /\ pc' = "func"
    /\ UNCHANGED <<fn, args, ret>>

\* result = func(*args, **kwargs) returns, and the clock is read
MeasureReturn ==
    /\ fn = "measure"
    /\ pc = "func"
    /\ \E r \in 1..MaxFuncResult, t \in 0..MaxWallTime :
        loc' = [loc EXCEPT !.result = Some(r),
                           !.wall_times = Append(loc.wall_times, t)]
    /\ pc' = "probes"
    /\ UNCHANGED <<fn, args, ret>>

\* the probes are read after the call and their differences appended
MeasureProbes ==
    /\ fn = "measure"
    /\ pc = "probes"
    /\ loc' = [loc EXCEPT !.probes = loc.probes + 1]
    /\ pc' = "loop"
    /\ UNCHANGED <<fn, args, ret>>

\* the statements after the loop: the metrics and the return
MeasureMetrics ==
    /\ fn = "measure"
    /\ pc = "loop"
    /\ loc.iteration >= args.repeat
    /\ IF args.repeat = 0
       THEN ret' = Raise("ZeroDivisionError")
       ELSE ret' = ReturnDict(
                [result |-> loc.result,
                 metrics |->
                     [wall_time_avg |->
                          avg_wall_of(loc.wall_times, args.repeat),
                      wall_time_variance |->
                          variance_of(loc.wall_times, args.repeat),
                      repeat_runs |-> args.repeat]])
    /\ pc' = "done"
    /\ UNCHANGED <<fn, args, loc>>

-----------------------------------------------------------------------------
(* AlgorithmRunner.run_all_algorithms of Main_Executable_File2: metrics *)

\* len(self.datasets[stage]) for the datasets of generate_all_datasets, whose
\* list for Shor is shor
cases(stage, shor) ==
    CASE stage = "shor" -> Len(shor)
      [] stage = "grover" -> GroverCases
      [] stage = "deutsch_jozsa" -> DJCases
      [] stage = "min_max" -> MinMaxCases
      [] stage = "phase_estimation" -> QPECases

MeanTimes == {0, MaxMeanTime}

\* c_metrics['wall_time_avg'] / max(q_metrics['wall_time_avg'], 1e-9)
time_speedup(q, c) == [num |-> c, den |-> IF q > Epsilon THEN q ELSE Epsilon]

\* sum(speeds) of fractions, from the j-th on
RECURSIVE sum_of_fractions(_, _)
sum_of_fractions(speeds, j) ==
    IF j > Len(speeds) THEN [num |-> 0, den |-> 1]
    ELSE LET rest == sum_of_fractions(speeds, j + 1)
         IN  [num |-> speeds[j].num * rest.den + rest.num * speeds[j].den,
              den |-> speeds[j].den * rest.den]

\* AlgorithmRunner(generator.datasets).run_all_algorithms(); every call of
\* measure in it reports the same two mean wall times
MetricsRunAllCall ==
    /\ pc = "idle"
    /\ \E count \in 0..MaxShorCount : \E shor \in shor_data(count) :
        \E q \in MeanTimes, c \in MeanTimes :
            args' = [shor |-> shor,
                     wall_time_avg |-> [quantum |-> q, classical |-> c]]
    /\ fn' = "AlgorithmRunner.run_all_algorithms (metrics)"
    /\ loc' = [stage |-> "shor", time_speedups |-> [i \in 1..5 |-> None]]
    /\ ret' = NoResult
    /\ pc' = "running"

\* a run_* method: the loop over the scenarios and
\* self.results[stage] = results
MetricsStage(k) ==
    /\ fn = "AlgorithmRunner.run_all_algorithms (metrics)"
    /\ pc = "running"
    /\ loc.stage = Stages[k]
    /\ LET speedup == time_speedup(args.wall_time_avg.quantum,
                                   args.wall_time_avg.classical)
           results == [i \in 1..cases(Stages[k], args.shor) |-> speedup]
       IN  loc' = [loc EXCEPT !.time_speedups[k] = Some(results),
                              !.stage = next_stage(Stages[k])]
    /\ UNCHANGED <<fn, pc, args, ret>>

metrics_run_shor == MetricsStage(1)

metrics_run_grover == MetricsStage(2)

metrics_run_deutsch_jozsa == MetricsStage(3)

metrics_run_min_max == MetricsStage(4)

metrics_run_phase_estimation == MetricsStage(5)

\* print_summary: for every algorithm sum(speeds) / len(speeds); then
\* run_all_algorithms returns self.results
metrics_print_summary ==
    /\ fn = "AlgorithmRunner.run_all_algorithms (metrics)"
    /\ pc = "running"
    /\ loc.stage = "print_summary"
    /\ IF \E k \in 1..5 : loc.time_speedups[k] = Some(<<>>)
       THEN ret' = Raise("ZeroDivisionError")
       ELSE ret' = ReturnDict(
                [avg_speed |->
                    [k \in 1..5 |->
                        LET speeds == loc.time_speedups[k][1]
                            total == sum_of_fractions(speeds, 1)
                        IN  [num |-> total.num,
                             den |-> total.den * Len(speeds)]]])
    /\ pc' = "done"
    /\ UNCHANGED <<fn, args, loc>>

-----------------------------------------------------------------------------
(* grover_search and deutsch_jozsa on numpy state vectors *)

\* A state vector of N real amplitudes is a record [x, den] of integers:
\* amplitude i is x[i] / (den * sqrt(N)), the fraction being in lowest terms.

\* the greatest common divisor of den and the numbers x[i], from index i on
RECURSIVE common_divisor(_, _, _)
common_divisor(x, i, d) ==
    IF i \notin DOMAIN x THEN d
    ELSE common_divisor(x, i + 1, gcd(d, Abs(x[i])))

lowest_terms(x, den) ==
    LET g == common_divisor(x, 0, den)
    IN  [x |-> [i \in DOMAIN x |-> x[i] \div g], den |-> den \div g]

\* np.ones(N) / np.sqrt(N)
uniform_state(N) == [x |-> [i \in 0..(N - 1) |-> 1], den |-> 1]

\* oracle(state): state[target_index] *= -1
search_oracle(state, target_index) ==
    [state EXCEPT !.x[target_index] = 0 - state.x[target_index]]

\* mean - state instead of 2 * mean - state
search_diffusion_about_half(state) ==
    LET N == Cardinality(DOMAIN state.x)
        total == SumOf(state.x, DOMAIN state.x)
    IN  lowest_terms([i \in DOMAIN state.x |-> total - N * state.x[i]],
                     N * state.den)

\* diffusion(state): mean = np.mean(state); return 2 * mean - state
search_diffusion(state) ==
    LET N == Cardinality(DOMAIN state.x)
        total == SumOf(state.x, DOMAIN state.x)
    IN  lowest_terms([i \in DOMAIN state.x |-> 2 * total - N * state.x[i]],
                     N * state.den)

\* one round more than int(np.pi/4 * np.sqrt(N))
search_iterations_and_one(N) == iterations_from(N, 1, 0) + 1

\* int(np.pi/4 * np.sqrt(N))
search_iterations(N) == iterations_from(N, 1, 0)

\* np.argmax(np.abs(state)): the first index of the greatest magnitude
argmax_abs(state) ==
    CHOOSE i \in DOMAIN state.x :
        /\ \A j \in DOMAIN state.x : Abs(state.x[j]) <= Abs(state.x[i])
        /\ \A j \in DOMAIN state.x :
              j < i => Abs(state.x[j]) < Abs(state.x[i])

\* grover_search(n, target_index) up to the loop
GroverSearchCall ==
    /\ pc = "idle"
    /\ \E n \in 1..MaxSearchQubits : \E target_index \in 0..(2 ^ n - 1) :
        /\ args' = [n |-> n, target_index |-> target_index]
        /\ loc' = [N |-> 2 ^ n,
                   vector |-> uniform_state(2 ^ n),
                   iterations |-> search_iterations(2 ^ n),
                   rounds |-> 0]
    /\ fn' = "grover_search"
    /\ ret' = NoResult
    /\ pc' = "oracle"

\* state = oracle(state)
GroverSearchOracle ==
    /\ fn = "grover_search"
    /\ pc = "oracle"
    /\ loc.rounds < loc.iterations
    /\ loc' = [loc EXCEPT !.vector = search_oracle(loc.vector,
                                                   args.target_index)]
    /\ pc' = "diffusion"
    /\ UNCHANGED <<fn, args, ret>>

\* state = diffusion(state)
GroverSearchDiffusion ==
    /\ fn = "grover_search"
    /\ pc = "diffusion"
    /\ loc' = [loc EXCEPT !.vector = search_diffusion(loc.vector),
                          !.rounds = loc.rounds + 1]
    /\ pc' = "oracle"
    /\ UNCHANGED <<fn, args, ret>>

\* return np.argmax(np.abs(state))
GroverSearchReturn ==
    /\ fn = "grover_search"
    /\ pc = "oracle"
    /\ loc.rounds >= loc.iterations
    /\ ret' = ReturnInt(argmax_abs(loc.vector))
    /\ pc' = "done"
    /\ UNCHANGED <<fn, args, loc>>

\* for x in range(N): if f(x) == 1: state[x] *= -1
RECURSIVE phase_flips(_, _, _)
phase_flips(state, f, x) ==
    IF x \notin DOMAIN f THEN state
    ELSE phase_flips(IF f[x] = 1 THEN search_oracle(state, x) ELSE state,
                     f, x + 1)

\* np.allclose(np.fft.fft(state)[1:], 0): the Fourier coefficients other than
\* the first are all zero exactly for a vector of equal amplitudes; for any
\* other vector of amplitudes +-1/sqrt(N) their squares add up to 2 or more
allclose_rest(state) == \A i \in DOMAIN state.x : state.x[i] = state.x[0]

\* deutsch_jozsa(f, n) for a function f into {0, 1}
ClassicalSimulationDJCall ==
    /\ pc = "idle"
    /\ \E n \in 1..MaxFunctionQubits : \E f \in [0..(2 ^ n - 1) -> {0, 1}] :
        LET state == phase_flips(uniform_state(2 ^ n), f, 0)
        IN  /\ args' = [f |-> f, n |-> n]
            /\ loc' = [N |-> 2 ^ n, vector |-> state]
            /\ ret' = ReturnStr(IF allclose_rest(state) THEN "Constant"
                                ELSE "Balanced")
    /\ fn' = "deutsch_jozsa"
    /\ pc' = "done"

-----------------------------------------------------------------------------
(* phase_estimation on numpy arrays *)

\* A complex number c * e^(2 pi i * turn / N) is a record [c, turn] with c an
\* integer and turn in 0..N-1.  U is a diagonal matrix given by the quarter
\* turns of its two diagonal entries, the eigenvector a pair of integers.

\* component 0 of np.linalg.matrix_power(U, k).dot(eigenvector) for diagonal
\* U: U[0][0]^k * eigenvector[0]
first_component(U, eigenvector, k, N) ==
    [c |-> eigenvector[0], turn |-> (U[0] * k * (N \div QuarterTurns)) % N]

\* the coefficient of e^(2 pi i * i / N), i < N/2, in z: the powers from N/2
\* on are the negated powers below N/2
coefficient(z, i, N) ==
    IF z.turn = i THEN z.c
    ELSE IF z.turn = i + N \div 2 THEN 0 - z.c
    ELSE 0

\* N * np.fft.ifft(state)[j], coefficient i: the sum over k from k0 on of
\* state[k] * e^(2 pi i * j * k / N)
RECURSIVE ifft_coefficient(_, _, _, _, _)
ifft_coefficient(state, j, i, k0, N) ==
    IF k0 >= N THEN 0
    ELSE coefficient([c |-> state[k0].c,
                      turn |-> (state[k0].turn + j * k0) % N], i, N)
         + ifft_coefficient(state, j, i, k0 + 1, N)

\* N * np.abs(np.fft.ifft(state))[j]: each sum is 0 or one power of
\* e^(2 pi i / N) times an integer, whose modulus is the sum of the absolute
\* values of its coefficients
ifft_abs(state, j, N) ==
    SumOf([i \in 0..(N \div 2 - 1) |->
              Abs(ifft_coefficient(state, j, i, 0, N))],
          0..(N \div 2 - 1))

\* np.argmax of a list of magnitudes: the first index of the greatest
argmax(magnitudes) ==
    CHOOSE i \in DOMAIN magnitudes :
        /\ \A j \in DOMAIN magnitudes : magnitudes[j] <= magnitudes[i]
        /\ \A j \in DOMAIN magnitudes : j < i => magnitudes[j] < magnitudes[i]

DiagonalMatrices == [0..1 -> 0..(QuarterTurns - 1)]
BasisVectors == {[i \in 0..1 |-> IF i = b THEN 1 ELSE 0] : b \in 0..1}

PhaseEstimationInputs ==
    [U : DiagonalMatrices, eigenvector : BasisVectors,
     t : 2..MaxPrecisionBits]

\* test_phase_estimation of master.py: U = diag(1, e^(2 pi i * 0.25)),
\* eigenvector (0, 1), t = 5
PhaseEstimationTests ==
    {[U |-> [i \in 0..1 |-> i], eigenvector |-> [i \in 0..1 |-> i], t |-> 5]}

\* phase_estimation(U, eigenvector, t): the loop filling state
PhaseEstimationCall ==
    /\ pc = "idle"
    /\ \E in \in PhaseEstimationInputs \cup PhaseEstimationTests :
        /\ args' = in
        /\ loc' = [N |-> 2 ^ in.t,
                   samples |-> [k \in 0..(2 ^ in.t - 1) |->
                       first_component(in.U, in.eigenvector, k, 2 ^ in.t)]]
    /\ fn' = "phase_estimation"
    /\ ret' = NoResult
    /\ pc' = "ifft"

\* result = np.fft.ifft(state); index = np.argmax(np.abs(result));
\* return index / N
PhaseEstimationReturn ==
    /\ fn = "phase_estimation"
    /\ pc = "ifft"
    /\ LET magnitudes == [j \in 0..(loc.N - 1) |->
                             ifft_abs(loc.samples, j, loc.N)]
       IN  /\ loc' = loc @@ [magnitudes |-> magnitudes]
           /\ ret' = ReturnFloat([num |-> argmax(magnitudes), den |-> loc.N])
    /\ pc' = "done"
    /\ UNCHANGED <<fn, args>>

-----------------------------------------------------------------------------
(* minimax with alpha-beta pruning on DummyNode trees *)

\* DummyNode(value, children): child_nodes = children or []
DummyNode(val, child_nodes) == [value |-> val, child_nodes |-> child_nodes]

is_terminal(node) == Len(node.child_nodes) = 0
evaluate(node) == node.value[1]
children(node) == node.child_nodes

RECURSIVE minimax(_, _, _, _, _)
RECURSIVE max_loop_cut_first(_, _, _, _, _, _)
RECURSIVE max_loop(_, _, _, _, _, _)
RECURSIVE min_loop(_, _, _, _, _, _)

\* the loop of the maximizing player with the test of beta <= alpha made
\* before max_eval takes the child's value
max_loop_cut_first(child_nodes, i, depth, alpha, beta, max_eval) ==
    IF i > Len(child_nodes) THEN max_eval
    ELSE LET eval == minimax(child_nodes[i], depth - 1, alpha, beta, FALSE)
         IN  IF beta <= max(<<alpha, eval>>) THEN max_eval
             ELSE max_loop_cut_first(child_nodes, i + 1, depth,
                                     max(<<alpha, eval>>), beta,
                                     max(<<max_eval, eval>>))

\* for child in node.children(), maximizing, from child i on
max_loop(child_nodes, i, depth, alpha, beta, max_eval) ==
    IF i > Len(child_nodes) THEN max_eval
    ELSE LET eval == minimax(child_nodes[i], depth - 1, alpha, beta, FALSE)
         IN  IF beta <= max(<<alpha, eval>>) THEN max(<<max_eval, eval>>)
             ELSE max_loop(child_nodes, i + 1, depth,
                           max(<<alpha, eval>>), beta,
                           max(<<max_eval, eval>>))

\* for child in node.children(), minimizing, from child i on
min_loop(child_nodes, i, depth, alpha, beta, min_eval) ==
    IF i > Len(child_nodes) THEN min_eval
    ELSE LET eval == minimax(child_nodes[i], depth - 1, alpha, beta, TRUE)
         IN  IF min(<<beta, eval>>) <= alpha THEN min(<<min_eval, eval>>)
             ELSE min_loop(child_nodes, i + 1, depth,
                           alpha, min(<<beta, eval>>),
                           min(<<min_eval, eval>>))

minimax(node, depth, alpha, beta, maximizing) ==
    IF depth = 0 \/ is_terminal(node) THEN evaluate(node)
    ELSE IF maximizing
         THEN max_loop(children(node), 1, depth, alpha, beta, 0 - float_inf)
         ELSE min_loop(children(node), 1, depth, alpha, beta, float_inf)

\* the leaves of a tree, counted
RECURSIVE leaf_count(_)
leaf_count(node) ==
    IF is_terminal(node) THEN 1
    ELSE sum([i \in 1..Len(node.child_nodes) |->
                 leaf_count(node.child_nodes[i])])

\* the number of levels below the root
RECURSIVE height(_)
height(node) ==
    IF is_terminal(node) THEN 0
    ELSE 1 + max([i \in 1..Len(node.child_nodes) |->
                     height(node.child_nodes[i])])

\* the trees of height h or less with k leaves or fewer, and the non-empty
\* lists of such trees with k leaves or fewer in all
RECURSIVE trees(_, _)
RECURSIVE forests(_, _)
trees(h, k) ==
    IF k = 0 THEN {}
    ELSE {DummyNode(Some(v), <<>>) : v \in 0..MaxLeafValue}
         \cup (IF h = 0 THEN {}
               ELSE {DummyNode(None, f) : f \in forests(h - 1, k)})

forests(h, k) ==
    UNION {{<<t>>} \cup {<<t>> \o f : f \in forests(h, k - leaf_count(t))} :
           t \in trees(h, k)}

\* the trees of test_minimax in master.py and master2.py
pair(a, b) == DummyNode(None, <<a, b>>)
leaf(v) == DummyNode(Some(v), <<>>)
master_tree == pair(pair(leaf(3), leaf(5)), pair(leaf(2), leaf(9)))
master2_tree ==
    pair(pair(pair(leaf(3), leaf(5)), pair(leaf(2), leaf(9))),
         pair(pair(leaf(12), leaf(5)), pair(leaf(23), leaf(23))))

MinimaxInputs ==
    {[node |-> t, depth |-> d, maximizing |-> m] :
        t \in trees(TreeHeight, MaxLeaves), d \in 0..SearchDepth,
        m \in BOOLEAN}

MinimaxTests ==
    {[node |-> master_tree, depth |-> SearchDepth, maximizing |-> TRUE],
     [node |-> master2_tree, depth |-> SearchDepth + 1, maximizing |-> TRUE]}

\* minimax(root, depth, float('-inf'), float('inf'), maximizing) with depth
\* at least the height of the tree
MinimaxCall ==
    /\ pc = "idle"
    /\ \E in \in MinimaxInputs \cup MinimaxTests :
        /\ in.depth >= height(in.node)
        /\ args' = in
        /\ ret' = ReturnInt(minimax(in.node, in.depth, 0 - float_inf, float_inf,
                                    in.maximizing))
    /\ fn' = "minimax"
    /\ loc' = [none |-> 0]
    /\ pc' = "done"

-----------------------------------------------------------------------------
(* The specification *)

Init ==
    /\ fn = "none"
    /\ pc = "idle"
    /\ args = [none |-> 0]
    /\ loc = [none |-> 0]
    /\ ret = NoResult

Next ==
    \/ ShorRunCall
    \/ ShorRunPeriod
    \/ ShorFactorCall
    \/ ShorFactorDraw
    \/ ShorFactorPeriod
    \/ ClassicalPeriodFindingCall
    \/ FindPeriodCall
    \/ ClassicalFactorizationCall
    \/ GroverRunCall
    \/ GroverRunMeasure
    \/ ClassicalSearchCall
    \/ DJRunCall
    \/ DJRunGate
    \/ DJRunMeasure
    \/ DJAnalysisCall
    \/ ClassicalDeutschJozsaCall
    \/ ClassicalMinMaxCall
    \/ MinMaxRunCall
    \/ MinMaxRunGate
    \/ MinMaxRunMeasure
    \/ QPERunCall
    \/ QPERunMeasure
    \/ RunAllCall
    \/ run_shor
    \/ run_grover
    \/ run_deutsch_jozsa
    \/ run_min_max
    \/ run_phase_estimation
    \/ print_summary
    \/ MainCall
    \/ MainGenerate
    \/ MainRunAll
    \/ MainAgain
    \/ GroverOracleCall
    \/ MinMaxOracleCall
    \/ MeasureCall
    \/ MeasureStart
    \/ MeasureReturn
    \/ MeasureProbes
    \/ MeasureMetrics
    \/ GenerateShorDataCall
    \/ MetricsRunAllCall
    \/ metrics_run_shor
    \/ metrics_run_grover
    \/ metrics_run_deutsch_jozsa
    \/ metrics_run_min_max
    \/ metrics_run_phase_estimation
    \/ metrics_print_summary
    \/ GroverSearchCall
    \/ GroverSearchOracle
    \/ GroverSearchDiffusion
    \/ GroverSearchReturn
    \/ ClassicalSimulationDJCall
    \/ PhaseEstimationCall
    \/ PhaseEstimationReturn
    \/ MinimaxCall

Spec == Init /\ [][Next]_vars

\* the interpreter runs a call it has begun to its end: the next statement of
\* a running shor_factor, and of a running run_all_algorithms, is executed
FairSpec ==
    /\ Init /\ [][Next]_vars
    /\ WF_vars(ShorFactorDraw) /\ WF_vars(ShorFactorPeriod)
    /\ WF_vars(run_shor) /\ WF_vars(run_grover) /\ WF_vars(run_deutsch_jozsa)
    /\ WF_vars(run_min_max) /\ WF_vars(run_phase_estimation)
    /\ WF_vars(print_summary)

-----------------------------------------------------------------------------
(* Arithmetic the properties are stated in *)

Divides(d, n) == \E k \in 0..n : d * k = n

IsPrime(n) == n >= 2 /\ \A d \in 2..(n - 1) : ~Divides(d, n)

\* the greatest common divisor of a >= 0 and N >= 1, by its definition
GreatestCommonDivisor(a, N) ==
    CHOOSE d \in 1..N :
        /\ Divides(d, a) /\ Divides(d, N)
        /\ \A e \in 1..N : (Divides(e, a) /\ Divides(e, N)) => e <= d

Coprime(a, N) == GreatestCommonDivisor(a, N) = 1

RECURSIVE Power(_, _, _)
Power(a, e, N) == IF e = 0 THEN 1 % N ELSE (a * Power(a, e - 1, N)) % N

\* the multiplicative order of a modulo N, for a coprime to N >= 2
MultiplicativeOrder(a, N) ==
    CHOOSE r \in 1..N :
        /\ Power(a, r, N) = 1
        /\ \A s \in 1..(r - 1) : Power(a, s, N) # 1

RECURSIVE Product(_)
Product(seq) == IF seq = <<>> THEN 1 ELSE Head(seq) * Product(Tail(seq))

Elements(seq) == {seq[i] : i \in 1..Len(seq)}

ProperFactor(f, N) == 1 < f /\ f < N /\ Divides(f, N)

OddFrom3(N) == N >= 3 /\ N % 2 = 1

ShorRunDone == fn = "ShorAlgorithm.run" /\ pc = "done"

ShorFactorDone == fn = "shor_factor" /\ pc = "done"

HasKey(d, k) == k \in DOMAIN d

-----------------------------------------------------------------------------
(* Properties *)

\* C1: shor_factor(N) terminates on every odd N >= 3, prime or composite,
\* whatever bases it draws: every call of it on such an N reaches its end.
C1_ShorFactorTerminates ==
    (fn = "shor_factor" /\ OddFrom3(args.N)) ~> ShorFactorDone

\* C2: when the period-based step yields a result (run returns method
\* 'quantum', shor_factor returns a pair), every returned factor divides N
\* and lies strictly between 1 and N; and the step yields a result whenever
\* the base is coprime to N, its period is even and a^(r/2) is not -1 mod N.
C2_PeriodFactorsProper ==
    /\ ShorRunDone /\ HasKey(ret.dict, "method")
         /\ ret.dict.method = "quantum"
       => \A f \in Elements(ret.dict.factors) : ProperFactor(f, args.N)
    /\ ShorFactorDone /\ HasKey(ret, "value")
       => \A f \in Elements(ret.value) : ProperFactor(f, args.N)
    /\ ShorRunDone /\ OddFrom3(args.N) /\ args.N <= SimulationLimitN
         /\ Coprime(loc.a, args.N)
       => LET r == MultiplicativeOrder(loc.a, args.N)
          IN  (r % 2 = 0 /\ Power(loc.a, r \div 2, args.N) # args.N - 1)
                 => /\ HasKey(ret.dict, "method")
                    /\ ret.dict.method = "quantum"

C2_Witness ==
    /\ ShorRunDone /\ args = [N |-> 21, a |-> 13]
    /\ HasKey(ret.dict, "method") /\ ret.dict.method = "quantum"

C4_SharedFactorReturned ==
    /\ ShorRunDone /\ OddFrom3(args.N) /\ args.N <= SimulationLimitN
         /\ HasKey(args, "a") /\ ~Coprime(args.a, args.N)
       => LET g == GreatestCommonDivisor(args.a, args.N)
          IN  /\ ret.dict.factors = <<g, args.N \div g>>
              /\ loc.period_calls = 0
              /\ ProperFactor(g, args.N)
    /\ fn = "shor_factor" /\ HasKey(loc, "a") /\ ~Coprime(loc.a, args.N)
       => LET g == GreatestCommonDivisor(loc.a, args.N)
          IN  /\ pc = "done"
              /\ ret = ReturnInt(g)
              /\ ProperFactor(g, args.N)

\* C5: when the base chosen for an odd composite N gives an odd period or
\* only trivial gcds, run retries with a different base and returns a
\* failure result only after the retries: a failure for want of a suitable
\* period comes after more than one period finding.
C5_RetriesBeforeFailure ==
    ShorRunDone /\ OddFrom3(args.N) /\ ~IsPrime(args.N)
        /\ HasKey(ret.dict, "error")
        /\ ret.dict.error \in {"Period not suitable", "Factorization failed"}
      => loc.period_calls > 1

\* C6: for N >= 2 and a coprime to N, _classical_period_finding(a, N) and
\* find_period(a, N) return the multiplicative order of a modulo N (so the
\* 'r > N' cut-off does not fire), and _classical_period_finding returns
\* None when a is not coprime to N.
C6_PeriodIsOrder ==
    /\ fn = "_classical_period_finding" /\ pc = "done" /\ args.N >= 2
       => IF Coprime(args.a, args.N)
          THEN ret.value = Some(MultiplicativeOrder(args.a, args.N))
          ELSE ret.value = None
    /\ fn = "find_period" /\ pc = "done" /\ args.N >= 2
         /\ Coprime(args.a, args.N)
       => ret.number = MultiplicativeOrder(args.a, args.N)

C6_Witness ==
    /\ fn = "find_period" /\ pc = "done"
    /\ args = [a |-> 3, N |-> 14] /\ ret.number = 6

\* C7: classical_factorization(N) returns, for N >= 2, the prime factors of
\* N with multiplicity in non-decreasing order (all prime, product N), so
\* [7, 13] for 91; for N < 2 it returns the empty list.
C7_PrimeFactorization ==
    fn = "classical_factorization" /\ pc = "done" =>
        LET f == ret.value
        IN  IF args.N < 2 THEN f = <<>>
            ELSE /\ \A i \in 1..Len(f) : IsPrime(f[i])
                 /\ \A i \in 1..(Len(f) - 1) : f[i] <= f[i + 1]
                 /\ Product(f) = args.N
                 /\ args.N = 91 => f = <<7, 13>>

C7_Witness ==
    /\ fn = "classical_factorization" /\ pc = "done"
    /\ args.N = 90 /\ ret.value = <<2, 3, 3, 5>>

IsPowerOfTwo(s) == \E k \in 0..s : 2 ^ k = s

\* the index a bitstring stands for: bit i from the right weighs 2^(i-1)
IndexOf(bits) ==
    SumOf([i \in 1..Len(bits) |-> bits[Len(bits) + 1 - i] * 2 ^ (i - 1)],
          1..Len(bits))

GroverRunDone == fn = "GroverAlgorithm.run" /\ pc = "done"

InSpace(list, size) == \A i \in 1..Len(list) : list[i] \in 0..(size - 1)

NoDuplicates(list) ==
    \A i, j \in 1..Len(list) : list[i] = list[j] => i = j

\* C8: GroverAlgorithm.run returns a failure result, at once and before it
\* builds a circuit, whenever space_size is not a power of two, marked_items
\* is empty, or a marked index lies outside [0, space_size).
C8_GroverRejectsBadInput ==
    fn = "GroverAlgorithm.run"
        /\ \/ ~IsPowerOfTwo(args.search_space_size)
           \/ args.marked_items = <<>>
           \/ ~InSpace(args.marked_items, args.search_space_size)
      => /\ pc = "done"
         /\ HasKey(ret, "dict") /\ HasKey(ret.dict, "error")
         /\ ~HasKey(loc, "circuit")

\* C9: for a histogram whose counts add up to the 1000 shots, run reports
\* found_items as a duplicate-free list of exactly the marked indices that
\* were measured, and success_rate as the shots on marked indices over 1000,
\* a value in [0, 1].
C9_FoundItemsAndRate ==
    GroverRunDone /\ HasKey(ret, "dict") /\ ~HasKey(ret.dict, "error") =>
        LET counts == ret.dict.measurements
            marked == Elements(args.marked_items)
            hits == {b \in DOMAIN counts : IndexOf(b) \in marked}
            rate == ret.dict.success_rate
        IN  /\ SumOf(counts, DOMAIN counts) = 1000
            /\ NoDuplicates(ret.dict.found_items)
            /\ Elements(ret.dict.found_items) = {IndexOf(b) : b \in hits}
            /\ Elements(ret.dict.found_items) \subseteq marked
            /\ rate.num = SumOf(counts, hits) /\ rate.den = 1000
            /\ 0 <= rate.num /\ rate.num <= rate.den

C9_Witness ==
    /\ GroverRunDone /\ HasKey(ret, "dict") /\ ~HasKey(ret.dict, "error")
    /\ args = [marked_items |-> <<3, 1>>, search_space_size |-> 4]
    /\ ret.dict.measurements = (<<1, 1>> :> 750) @@ (<<1, 0>> :> 250)
    /\ ret.dict.found_items = <<3>>
    /\ ret.dict.success_rate = [num |-> 750, den |-> 1000]

\* C10: classical_search(marked_items, space_size) returns found_items equal
\* as a set to marked_items, in ascending order and without duplicates, for
\* every non-empty list marked_items of indices in [0, space_size).
C10_ClassicalSearchFindsAll ==
    fn = "classical_search" /\ pc = "done"
        /\ args.marked_items # <<>>
        /\ InSpace(args.marked_items, args.search_space_size)
      => LET found == ret.dict.found_items
         IN  /\ Elements(found) = Elements(args.marked_items)
             /\ \A i \in 1..(Len(found) - 1) : found[i] < found[i + 1]

C10_Witness ==
    /\ fn = "classical_search" /\ pc = "done"
    /\ args = [marked_items |-> <<3, 1>>, search_space_size |-> 4]
    /\ ret.dict.found_items = <<1, 3>>

DJAnalysed ==
    /\ fn \in {"DeutschJozsaAlgorithm.run", "DeutschJozsaAlgorithm.run:analysis"}
    /\ pc = "done"
    /\ HasKey(ret, "dict") /\ HasKey(ret.dict, "detected_type")

\* the shots of the histogram counts on the all-zero string of n characters
AllZeroCount(counts, n) ==
    LET all_zeros == [i \in 1..n |-> 0]
    IN  IF all_zeros \in DOMAIN counts THEN counts[all_zeros] ELSE 0

\* C11 as stated: DeutschJozsaAlgorithm.run declares 'constant' exactly when
\* the all-zero outcome's share of the 1024 shots exceeds 0.88, and
\* 'balanced' otherwise, for every all-zero count from 0 to 1024.
C11_ConstantAboveShare ==
    DJAnalysed =>
        LET z == AllZeroCount(ret.dict.measurements, args.n_qubits)
        IN  IF 100 * z > 88 * 1024
            THEN ret.dict.detected_type = "constant"
            ELSE ret.dict.detected_type = "balanced"

\* C11 amended: DeutschJozsaAlgorithm.run declares 'constant' exactly when
\* the all-zero outcome holds more than 900 of the 1024 shots, and 'balanced'
\* otherwise, for every all-zero count from 0 to 1024, the count being 0 when
\* the all-zero string is absent from the histogram.
C11_ConstantAboveThreshold ==
    DJAnalysed =>
        LET z == AllZeroCount(ret.dict.measurements, args.n_qubits)
        IN  /\ SumOf(ret.dict.measurements, DOMAIN ret.dict.measurements) = 1024
            /\ IF z > 900
               THEN ret.dict.detected_type = "constant"
               ELSE ret.dict.detected_type = "balanced"

C11_Witness ==
    /\ DJAnalysed
    /\ AllZeroCount(ret.dict.measurements, args.n_qubits) = 901
    /\ ret.dict.detected_type = "constant"

\* C12: in the noise-free circuit built by DeutschJozsaAlgorithm.run, for
\* n = 3..6: with the constant oracle, be it the no-op or the ancilla flip,
\* every shot measures the all-zero input string, and with the balanced
\* parity oracle no shot measures it, so the result has correct = true.
C12_NoiseFreeDetection ==
    fn = "DeutschJozsaAlgorithm.run" /\ pc = "done"
        /\ args.n_qubits \in 3..6
        /\ args.function_type \in {"constant", "balanced"}
      => LET counts == ret.dict.measurements
             all_zeros == [i \in 1..args.n_qubits |-> 0]
         IN  /\ args.function_type = "constant" =>
                    counts = [b \in {all_zeros} |-> 1024]
             /\ args.function_type = "balanced" =>
                    all_zeros \notin DOMAIN counts
             /\ ret.dict.detected_type = args.function_type
             /\ ret.dict.correct = TRUE

C12_Witness ==
    /\ fn = "DeutschJozsaAlgorithm.run" /\ pc = "done"
    /\ args = [n_qubits |-> 6, function_type |-> "constant"]
    /\ loc.qc[6 + 3] = X(6)
    /\ ret.dict.measurements = [b \in {<<0, 0, 0, 0, 0, 0>>} |-> 1024]
    /\ ret.dict.correct = TRUE


\* C13: classical_deutsch_jozsa(n, type) reports queries = 2^(n-1) + 1 and
\* simulates outputs consistent with the claimed function type, so that the
\* rule "all outputs identical" gives detected_type equal to function_type
\* (correct = true), for every n >= 1, both function types and every shuffle
\* of the simulated outputs.
C13_ClassicalDeutschJozsa ==
    fn = "classical_deutsch_jozsa" /\ pc = "done"
        /\ args.n_qubits >= 1
        /\ args.function_type \in {"constant", "balanced"}
      => LET half == 2 ^ (args.n_qubits - 1)
             zeros == Occurrences(loc.outputs, 0)
             ones == Occurrences(loc.outputs, 1)
         IN  /\ ret.dict.queries = half + 1
             /\ Len(loc.outputs) = half + 1
             /\ zeros + ones = half + 1
             /\ args.function_type = "constant" => zeros = 0 \/ ones = 0
             /\ args.function_type = "balanced" =>
                    /\ 1 <= zeros /\ zeros <= half
                    /\ 1 <= ones /\ ones <= half
             /\ ret.dict.detected_type = args.function_type
             /\ ret.dict.correct = TRUE

C13_Witness ==
    /\ fn = "classical_deutsch_jozsa" /\ pc = "done"
    /\ args = [n_qubits |-> 3, function_type |-> "balanced"]
    /\ loc.outputs = <<1, 0, 1, 1, 0>>
    /\ ret.dict.queries = 5
    /\ ret.dict.correct = TRUE

\* the smallest index (counted from 0) at which data holds the value v
FirstIndex(data, v) ==
    CHOOSE i \in 0..(Len(data) - 1) :
        /\ data[i + 1] = v
        /\ \A j \in 0..(i - 1) : data[j + 1] # v

\* C14: classical_min_max(data, find_min) returns, for every non-empty data,
\* the true minimum (find_min) or maximum of data, the smallest index at
\* which that value occurs, and comparisons = len(data) - 1; for empty data
\* it returns an error result instead.
C14_ClassicalMinMax ==
    fn = "classical_min_max" /\ pc = "done" =>
        IF args.data = <<>> THEN HasKey(ret.dict, "error")
        ELSE /\ ~HasKey(ret.dict, "error")
             /\ ret.dict.value \in Elements(args.data)
             /\ \A v \in Elements(args.data) :
                    IF args.find_min THEN ret.dict.value <= v
                                     ELSE ret.dict.value >= v
             /\ ret.dict.index = FirstIndex(args.data, ret.dict.value)
             /\ ret.dict.comparisons = Len(args.data) - 1

C14_Witness ==
    /\ fn = "classical_min_max" /\ pc = "done"
    /\ args = [data |-> <<2, 0, 1>>, find_min |-> FALSE]
    /\ ret.dict.value = 2 /\ ret.dict.index = 0
    /\ ret.dict.comparisons = 2

\* the minimum (find_min) or maximum of a non-empty list, by its definition
Extremum(data, find_min) ==
    CHOOSE v \in Elements(data) :
        \A w \in Elements(data) : IF find_min THEN v <= w ELSE v >= w

\* C15: in QuantumMinMaxAlgorithm.run, for every non-empty data: the data is
\* padded to the smallest power-of-two length >= len(data); the marked set is
\* exactly the set of indices of the original data that hold the true minimum
\* (maximum), never a padded slot; the run is flagged successful if and only
\* if the most frequent measured index is below len(data) and holds the true
\* target value; and the input list data is not modified.
C15_MinMaxRun ==
    fn = "QuantumMinMaxAlgorithm.run" /\ args.data # <<>> =>
        LET data == args.data
            n == Len(data)
            padded == loc.padded_data
            target == Extremum(data, args.find_min)
        IN  /\ loc.data = data
            /\ IsPowerOfTwo(Len(padded))
            /\ n <= Len(padded) /\ Len(padded) < 2 * n
            /\ SubSeq(padded, 1, n) = data
            /\ \A i \in (n + 1)..Len(padded) :
                   IF args.find_min THEN padded[i] > target
                                    ELSE padded[i] < target
            /\ NoDuplicates(loc.target_indices)
            /\ Elements(loc.target_indices) =
                   {i \in 0..(n - 1) : data[i + 1] = target}
            /\ pc = "done" /\ HasKey(ret, "dict")
                  /\ ~HasKey(ret.dict, "error") =>
                   LET counts == ret.dict.measurements
                       found == ret.dict.found_index
                   IN  /\ \E b \in DOMAIN counts :
                              /\ IndexOf(b) = found
                              /\ \A c \in DOMAIN counts : counts[c] <= counts[b]
                       /\ ret.dict.success =
                              (found < n /\ data[found + 1] = target)
                       /\ ret.dict.target_indices = loc.target_indices
                       /\ ret.dict.data = data

C15_Witness ==
    /\ fn = "QuantumMinMaxAlgorithm.run" /\ pc = "done"
    /\ args = [data |-> <<1, 0, 0>>, find_min |-> TRUE]
    /\ loc.padded_data = <<1, 0, 0, 3>>
    /\ loc.target_indices = <<1, 2>>
    /\ ret.dict.measurements = (<<1, 1>> :> 750) @@ (<<1, 0>> :> 250)
    /\ ret.dict.found_index = 3
    /\ ret.dict.found_value = None
    /\ ret.dict.success = FALSE

\* the fractions x and y are the same number
SameNumber(x, y) == x.num * y.den = y.num * x.den

\* C16: for every dyadic phase k/2^t with 0 <= k < 2^t and 1 <= t <= 10,
\* QuantumPhaseEstimation.run(phase, t) measures the integer k on the
\* counting register in the noise-free circuit, so estimated_phase == phase
\* and error == 0 (e.g. phase 0.25 with t = 4), with precision reported as
\* 1/2^t.
C16_DyadicPhaseExact ==
    fn = "QuantumPhaseEstimation.run" /\ pc = "done"
        /\ args.n_counting_qubits \in 1..10
        /\ 0 <= args.phase.num /\ args.phase.num < args.phase.den
        /\ args.phase.den <= 2 ^ args.n_counting_qubits
      => LET t == args.n_counting_qubits
             k == args.phase.num * (2 ^ t \div args.phase.den)
         IN  /\ ret.dict.measured_int = k
             /\ ret.dict.measurements = [b \in {format_binary(k, t)} |-> 2048]
             /\ SameNumber(ret.dict.estimated_phase, args.phase)
             /\ ret.dict.error.num = 0
             /\ SameNumber(ret.dict.precision, [num |-> 1, den |-> 2 ^ t])

C16_Witness ==
    /\ fn = "QuantumPhaseEstimation.run" /\ pc = "done"
    /\ args = [phase |-> [num |-> 1, den |-> 4], n_counting_qubits |-> 3]
    /\ ret.dict.measurements = [b \in {<<0, 1, 0>>} |-> 2048]
    /\ ret.dict.estimated_phase = [num |-> 2, den |-> 8]
    /\ ret.dict.error.num = 0

QuantumRuns ==
    {"DeutschJozsaAlgorithm.run", "GroverAlgorithm.run",
     "QuantumMinMaxAlgorithm.run", "QuantumPhaseEstimation.run"}

\* the qubits of the register a run has created: ancilla and eigenstate
\* qubits included
Allocated ==
    IF fn = "GroverAlgorithm.run"
    THEN IF HasKey(loc, "circuit") THEN loc.n_qubits ELSE 0
    ELSE IF HasKey(loc, "qr") THEN loc.qr ELSE 0

\* the qubits of the register the arguments of a run ask for
Wanted ==
    CASE fn = "DeutschJozsaAlgorithm.run" -> args.n_qubits + 1
      [] fn = "GroverAlgorithm.run" ->
            IF IsPowerOfTwo(args.search_space_size)
            THEN log2(args.search_space_size) ELSE 0
      [] fn = "QuantumMinMaxAlgorithm.run" ->
            IF args.data = <<>> THEN 0 ELSE ceil_log2(Len(args.data))
      [] fn = "QuantumPhaseEstimation.run" -> args.n_counting_qubits + 1

\* C17: no algorithm entry point ever allocates a quantum register of more
\* than the ceiling of 10 qubits: DeutschJozsaAlgorithm.run,
\* GroverAlgorithm.run, QuantumMinMaxAlgorithm.run and
\* QuantumPhaseEstimation.run each return a too-large failure result, before
\* creating any register, whenever the register they would allocate
\* (ancilla or eigenstate qubits included) exceeds 10 qubits.
C17_QubitCeiling ==
    fn \in QuantumRuns =>
        /\ Allocated <= 10
        /\ Wanted > 10 =>
               /\ pc = "done"
               /\ HasKey(ret, "dict") /\ HasKey(ret.dict, "error")
               /\ Allocated = 0

\* a returned result that does not hold the answer of its run
Failed ==
    CASE fn = "ShorAlgorithm.run" -> ret.dict.factors = None
      [] fn = "GroverAlgorithm.run" -> ~HasKey(ret.dict, "found_items")
      [] fn = "DeutschJozsaAlgorithm.run" -> ~HasKey(ret.dict, "detected_type")
      [] fn = "QuantumMinMaxAlgorithm.run" -> ~HasKey(ret.dict, "found_index")
      [] fn = "QuantumPhaseEstimation.run" ->
            ~HasKey(ret.dict, "estimated_phase")

\* C18: every failure path of the five algorithm run methods produces a
\* discriminated result the caller can branch on: a returned result carries
\* the 'error' field if and only if the run failed, so no success result is
\* mistaken for a failure and no failure for a success.
C18_ErrorFieldIffFailure ==
    fn \in QuantumRuns \cup {"ShorAlgorithm.run"} /\ pc = "done"
        /\ HasKey(ret, "dict")
      => (HasKey(ret.dict, "error") <=> Failed)

RunAll == fn = "AlgorithmRunner.run_all_algorithms"

\* self.results holds, for every algorithm, one entry for every scenario of
\* its dataset, in the order of the dataset
AllScenariosRecorded ==
    /\ RunAll
    /\ \A k \in 1..5 :
        /\ loc.self_results[k] # None
        /\ LET recorded == loc.self_results[k][1]
               dataset == args.datasets[Stages[k]]
           IN  /\ Len(recorded) = Len(dataset)
               /\ \A i \in 1..Len(dataset) :
                      recorded[i] = entry(Stages[k], dataset[i])

\* C19: AlgorithmRunner.run_all_algorithms eventually records one result
\* entry for every scenario of every algorithm's dataset, in dataset order,
\* even when the run of an earlier scenario returned a failure result: one
\* failed scenario never stops the remaining ones from being processed.
C19_AllScenariosRecorded == RunAll ~> AllScenariosRecorded

\* C20: two executions started with the same integer seed are reproducible:
\* DatasetGenerator generates identical datasets, and every step of the run
\* that consumes randomness (measurement sampling, the choice of the constant
\* oracle, the classical noise) draws the same values, so the recorded
\* results are identical.
C20_SameSeedSameRun ==
    fn = "main" /\ pc = "done" =>
        /\ loc.datasets = loc.first.datasets
        /\ loc.draws = loc.first.draws
        /\ loc.results = loc.first.results

OracleDone ==
    /\ fn \in {"GroverAlgorithm._oracle",
               "QuantumMinMaxAlgorithm._min_max_oracle"}
    /\ pc = "done"

OracleList ==
    IF fn = "GroverAlgorithm._oracle" THEN args.marked_items
    ELSE args.target_indices

\* every Hadamard gate of the model leaves out a factor 1/sqrt(2): after the
\* gates of qc an amplitude 1 of the register is this number in the model
ScaleOf(qc) ==
    2 ^ (Cardinality({k \in 1..Len(qc) : qc[k].name = "h"}) \div 2)

\* the operator that multiplies by -1 the amplitudes of the basis states in
\* marked and leaves every other amplitude as it is
PhaseFlip(marked, n, scale) ==
    [b \in 0..(2 ^ n - 1) |->
        [i \in 0..(2 ^ n - 1) |->
            IF i # b THEN 0 ELSE IF b \in marked THEN 0 - scale ELSE scale]]

QuarterPiRoot(space, marked) ==
    CHOOSE k \in 0..space :
        /\ 160000 * k * k * marked <= 98696 * space
        /\ 160000 * (k + 1) * (k + 1) * marked >= 98697 * space

\* k times the gates of one round
RECURSIVE Rounds(_, _)
Rounds(round, k) == IF k = 0 THEN <<>> ELSE round \o Rounds(round, k - 1)

GroverBuilt == fn = "GroverAlgorithm.run" /\ HasKey(loc, "qc")

MinMaxBuilt == fn = "QuantumMinMaxAlgorithm.run" /\ HasKey(loc, "qc")

\* C22: the circuit GroverAlgorithm.run measures is the Hadamard layer
\* followed by exactly floor(pi/4 * sqrt(space_size / len(marked_items)))
\* rounds of {marking oracle; diffusion} (3 for one marked item in 16, 2 for
\* two in 16, 4 for one in 32), the number run reports as iterations; the
\* circuit of QuantumMinMaxAlgorithm.run is built the same way, with the
\* formula applied to the padded length and the number of target indices.
C22_IterationCount ==
    /\ GroverBuilt =>
        LET k == QuarterPiRoot(args.search_space_size, Len(args.marked_items))
            n == loc.n_qubits
        IN  /\ loc.qc = h_all(n)
                        \o Rounds(grover_oracle(args.marked_items, n, 1)
                                  \o diffusion(n), k)
            /\ pc = "done" => ret.dict.iterations = k
            /\ args.search_space_size = 16 /\ Len(args.marked_items) = 1
                  => k = 3
            /\ args.search_space_size = 16 /\ Len(args.marked_items) = 2
                  => k = 2
            /\ args.search_space_size = 32 /\ Len(args.marked_items) = 1
                  => k = 4
    /\ MinMaxBuilt =>
        LET k == QuarterPiRoot(Len(loc.padded_data), Len(loc.target_indices))
            n == loc.n_qubits
        IN  /\ loc.qc = h_all(n)
                        \o Rounds(min_max_oracle(loc.target_indices, n, 1)
                                  \o diffusion(n), k)
            /\ pc = "done" => ret.dict.iterations = k

C22_Witness ==
    /\ GroverBuilt /\ pc = "done"
    /\ args = [marked_items |-> <<5>>, search_space_size |-> 16]
    /\ ret.dict.iterations = 3
    /\ Len(loc.qc) = 4 + 3 * (7 + 19)

ClassicalSearchDone == fn = "classical_search" /\ pc = "done"

Largest(list) ==
    CHOOSE v \in Elements(list) : \A w \in Elements(list) : w <= v

\* C23 as stated: classical_search scans the indices 0, 1, 2, ... in order
\* and exits as soon as all marked items have been found: for every non-empty
\* list marked_items of indices in [0, space_size), comparisons is the largest
\* marked index plus one, and comparisons never exceeds space_size.
C23_EarlyExit ==
    ClassicalSearchDone =>
        /\ ret.dict.comparisons <= args.search_space_size
        /\ args.marked_items # <<>>
              /\ InSpace(args.marked_items, args.search_space_size)
           => ret.dict.comparisons = Largest(args.marked_items) + 1

Measuring == fn = "measure"

SumOfSquares(list) == sum([j \in 1..Len(list) |-> list[j] * list[j]])

\* C24: measure(func, repeat=k) invokes func exactly k times, one after
\* another (a call starts only when every earlier call has returned and its
\* probes have been read), returns the result of the last call, and reports
\* repeat_runs = k, wall_time_avg the mean and wall_time_variance the
\* non-negative population variance (mean of the squares minus the square of
\* the mean) of the k wall times, for every k >= 1.
C24_SerialRepeats ==
    Measuring =>
        /\ pc = "func" =>
              /\ loc.probes = loc.calls - 1
              /\ Len(loc.wall_times) = loc.calls - 1
        /\ pc # "func" => Len(loc.wall_times) = loc.calls
        /\ pc = "loop" => loc.probes = loc.calls
        /\ pc = "done" /\ args.repeat >= 1 =>
              LET k == args.repeat
                  times == loc.wall_times
                  m == ret.dict.metrics
              IN  /\ loc.calls = k /\ Len(times) = k
                  /\ ret.dict.result = loc.result
                  /\ m.repeat_runs = k
                  /\ m.wall_time_avg.den > 0
                  /\ m.wall_time_avg.num * k = sum(times) * m.wall_time_avg.den
                  /\ m.wall_time_variance.num * k * k
                        = (k * SumOfSquares(times) - sum(times) * sum(times))
                          * m.wall_time_variance.den
                  /\ m.wall_time_variance.den > 0
                  /\ m.wall_time_variance.num >= 0

C24_Witness ==
    /\ Measuring /\ pc = "done"
    /\ args.repeat = 3
    /\ loc.wall_times = <<0, 2, 1>>
    /\ loc.calls = 3
    /\ ret.dict.result = <<2>>
    /\ ret.dict.metrics.wall_time_avg = [num |-> 3, den |-> 3]
    /\ ret.dict.metrics.wall_time_variance = [num |-> 18, den |-> 27]

\* the products of two distinct primes between 10 and 100
TwoPrimeProducts ==
    {N \in 11..99 :
        \E p \in 2..9 :
            /\ N % p = 0 /\ p # N \div p
            /\ IsPrime(p) /\ IsPrime(N \div p)}

\* C30: for every N that generate_shor_data can produce (a product of two
\* distinct primes with 10 < N < 100), ShorAlgorithm.run(N) as the harness
\* calls it returns a factor pair that is not None and whose set is the set
\* of the prime factors classical_factorization(N) returns.
C30_GeneratedFactored ==
    ShorRunDone /\ ~HasKey(args, "a") /\ args.N \in shor_values =>
        /\ args.N \in TwoPrimeProducts
        /\ ret.dict.factors # None
        /\ Elements(ret.dict.factors)
              = Elements(classical_factorization(args.N))

MetricsRun == fn = "AlgorithmRunner.run_all_algorithms (metrics)"

\* C25: every speedup ratio and every average the harness computes is well
\* defined: no division by zero occurs for any dataset DatasetGenerator can
\* produce and any measured times >= 0, a quantum mean time of 0 and an
\* algorithm whose generated scenario list is empty included.
C25_NoDivisionByZero ==
    MetricsRun =>
        /\ ret.kind # "raise"
        /\ \A k \in 1..5 :
              loc.time_speedups[k] # None =>
                  \A i \in 1..Len(loc.time_speedups[k][1]) :
                      loc.time_speedups[k][1][i].den > 0
        /\ pc = "done" => \A k \in 1..5 : ret.dict.avg_speed[k].den > 0

\* C23, for lists that hold no index twice: classical_search exits as soon
\* as all marked items have been found, so that comparisons is the largest
\* marked index plus one for every non-empty list of distinct indices in
\* [0, space_size); comparisons never exceeds space_size for any input.
C23_EarlyExitDistinct ==
    ClassicalSearchDone =>
        /\ ret.dict.comparisons <= args.search_space_size
        /\ args.marked_items # <<>>
              /\ NoDuplicates(args.marked_items)
              /\ InSpace(args.marked_items, args.search_space_size)
           => ret.dict.comparisons = Largest(args.marked_items) + 1

C23_Witness ==
    /\ ClassicalSearchDone
    /\ args = [marked_items |-> <<1, 0>>, search_space_size |-> 4]
    /\ ret.dict.comparisons = 2

OnStateVector == fn \in {"grover_search", "deutsch_jozsa"}

\* the sum of the squares of the amplitudes x[i] / (den * sqrt(N))
SquaredNorm(v) ==
    [num |-> SumOf([i \in DOMAIN v.x |-> v.x[i] * v.x[i]], DOMAIN v.x),
     den |-> v.den * v.den * Cardinality(DOMAIN v.x)]

\* C26: normalization is preserved by every state-vector operator the code
\* applies: from the uniform superposition on, after any number of
\* applications of the phase-flip oracle and of the diffusion step of
\* grover_search, and after the sign flips of deutsch_jozsa, the squared
\* amplitude magnitudes add up to 1.
C26_NormPreserved ==
    OnStateVector =>
        /\ SquaredNorm(loc.vector).den > 0
        /\ SquaredNorm(loc.vector).num = SquaredNorm(loc.vector).den

C26_Witness ==
    /\ fn = "grover_search" /\ pc = "oracle"
    /\ args = [n |-> 3, target_index |-> 5]
    /\ loc.rounds = 2
    /\ loc.vector.x[5] = 11 /\ loc.vector.x[0] = 0 - 1
    /\ loc.vector.den = 4

GroverSearchDone == fn = "grover_search" /\ pc = "done"

\* C27: grover_search(n, target_index) returns target_index for every
\* n >= 1 and every target_index below 2^n: after int(pi/4 * sqrt(2^n))
\* rounds of oracle and diffusion the target holds the strictly largest
\* amplitude magnitude.
C27_SearchFindsTarget ==
    GroverSearchDone =>
        /\ ret = ReturnInt(args.target_index)
        /\ \A i \in DOMAIN loc.vector.x :
              i # args.target_index =>
                  Abs(loc.vector.x[i]) < Abs(loc.vector.x[args.target_index])

\* C27, from two qubits on: grover_search(n, target_index) returns
\* target_index, which holds the strictly largest amplitude magnitude after
\* the rounds, for every n >= 2 and every target_index below 2^n.
C27_FromTwoQubits ==
    (GroverSearchDone /\ args.n >= 2) => C27_SearchFindsTarget

C27_Witness ==
    /\ GroverSearchDone
    /\ args = [n |-> 3, target_index |-> 5]
    /\ loc.rounds = 2
    /\ ret = ReturnInt(5)

PhaseEstimationDone == fn = "phase_estimation" /\ pc = "done"

\* the runners' sample case: U = diag(1, e^(2 pi i * 0.25)), eigenvector (0, 1)
SamplePhaseCase ==
    /\ args.U = [i \in 0..1 |-> i]
    /\ args.eigenvector = [i \in 0..1 |-> i]

\* C28: phase_estimation(U, eigenvector, t) returns the eigenphase phi of the
\* eigenvector under U whenever phi = k/2^t: for U = diag(1, e^(2 pi i * 0.25))
\* and eigenvector (0, 1) it returns 0.25.
C28_SamplePhase ==
    (PhaseEstimationDone /\ SamplePhaseCase) =>
        ret.fraction.num * QuarterTurns = ret.fraction.den

MinimaxDone == fn = "minimax" /\ pc = "done"

\* minimax without pruning: the greatest, or the least, of the values of the
\* children, the players taking turns
RECURSIVE exhaustive(_, _)
exhaustive(node, maximizing) ==
    IF Len(node.child_nodes) = 0 THEN node.value[1]
    ELSE LET values == [i \in 1..Len(node.child_nodes) |->
                           exhaustive(node.child_nodes[i], ~maximizing)]
         IN  IF maximizing THEN max(values) ELSE min(values)

\* C29: minimax with alpha-beta pruning, called at the root with
\* alpha = -infinity, beta = +infinity and depth at least the tree height,
\* returns the same value as exhaustive minimax without pruning, for every
\* finite game tree with integer leaf values and either player to move.
C29_PruningKeepsValue ==
    MinimaxDone => ret = ReturnInt(exhaustive(args.node, args.maximizing))

\* the tree of master.py's test_minimax: the second leaf of the second node
\* is cut off, and the value is 3
C29_Witness ==
    /\ MinimaxDone
    /\ args.node = master_tree
    /\ args.maximizing
    /\ ret = ReturnInt(3)

=============================================================================
